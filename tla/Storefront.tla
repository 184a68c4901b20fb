----------------------------- MODULE Storefront ------------------------------
(* The platform beside the order pipeline, one component at a time: the       *)
(* session, the one-time codes, the reviews, the checkout page, the catalogue,*)
(* the locks of the transactions, the shopping assistant, the product list    *)
(* and search, the search by image, the posts to social media, and the stock  *)
(* audit.  Their models share no state, so a behaviour of the whole is one of *)
(* each, and a run follows the part that was picked.                          *)
EXTENDS Sessions, Verification, Reviews, Checkout, Catalogue, RowLocks,
        Assistant, Listing, VisualSearch, Social, Reconciliation

CONSTANT Parts     \* the components a run follows

VARIABLE part

userVars == <<sessionVars, otpVars, reviewVars>>
browseVars == <<listingVars, visualVars>>
officeVars == <<catalogueVars, lockVars, chatVars, socialVars, auditVars>>
storefrontVars ==
  <<part, sessionVars, otpVars, reviewVars, shopVars, catalogueVars, lockVars,
    chatVars, browseVars, socialVars, auditVars>>

(* A part that is not followed rests in one of its initial states.            *)
StorefrontInit ==
  /\ part \in Parts
  /\ SessionsInit
  /\ part # "session" => access = None /\ expired = 1
  /\ OtpInit /\ ReviewsInit
  /\ CheckoutInit
  /\ part # "checkout" =>
       /\ products = [i \in Item |-> CHOOSE row \in Rows[i] : TRUE]
       /\ ~isAuthenticated /\ ~contactVerified
  /\ CatalogueInit
  /\ part # "catalogue" =>
       /\ parent = CHOOSE f \in Forests : TRUE
       /\ \A g \in Good : shelf[g] = New
  /\ RowLocksInit
  /\ part # "locks" => \A o \in OrderId : orderStatus[o] = "NONE"
  /\ AssistantInit
  /\ part # "assistant" => tag = [w \in Ware |-> CHOOSE p \in Price : TRUE]
  /\ ListingInit
  /\ part # "listing" => url.filter = CHOOSE f \in Filter : TRUE
  /\ VisualSearchInit
  /\ SocialInit
  /\ part # "social" => ready = {}
  /\ ReconciliationInit
  /\ part # "audit" => shelves = [p \in Sku |-> CHOOSE s \in Opening : TRUE]

StorefrontNext ==
  /\ UNCHANGED part
  /\ \/ /\ part = "session" /\ SessionsNext
        /\ UNCHANGED <<shopVars, browseVars, officeVars>>
        /\ UNCHANGED <<otpVars, reviewVars>>
     \/ /\ part = "codes" /\ OtpNext
        /\ UNCHANGED <<shopVars, browseVars, officeVars>>
        /\ UNCHANGED <<sessionVars, reviewVars>>
     \/ /\ part = "reviews" /\ ReviewsNext
        /\ UNCHANGED <<shopVars, browseVars, officeVars>>
        /\ UNCHANGED <<sessionVars, otpVars>>
     \/ /\ part = "checkout" /\ CheckoutNext
        /\ UNCHANGED <<userVars, browseVars, officeVars>>
     \/ /\ part = "listing" /\ ListingNext
        /\ UNCHANGED <<userVars, shopVars, officeVars>>
        /\ UNCHANGED <<visualVars>>
     \/ /\ part = "camera" /\ VisualSearchNext
        /\ UNCHANGED <<userVars, shopVars, officeVars>>
        /\ UNCHANGED <<listingVars>>
     \/ /\ part = "catalogue" /\ CatalogueNext
        /\ UNCHANGED <<userVars, shopVars, browseVars>>
        /\ UNCHANGED <<lockVars, chatVars, socialVars, auditVars>>
     \/ /\ part = "locks" /\ RowLocksNext
        /\ UNCHANGED <<userVars, shopVars, browseVars>>
        /\ UNCHANGED <<catalogueVars, chatVars, socialVars, auditVars>>
     \/ /\ part = "assistant" /\ AssistantNext
        /\ UNCHANGED <<userVars, shopVars, browseVars>>
        /\ UNCHANGED <<catalogueVars, lockVars, socialVars, auditVars>>
     \/ /\ part = "social" /\ SocialNext
        /\ UNCHANGED <<userVars, shopVars, browseVars>>
        /\ UNCHANGED <<catalogueVars, lockVars, chatVars, auditVars>>
     \/ /\ part = "audit" /\ ReconciliationNext
        /\ UNCHANGED <<userVars, shopVars, browseVars>>
        /\ UNCHANGED <<catalogueVars, lockVars, chatVars, socialVars>>

StorefrontSpec ==
  /\ StorefrontInit /\ [][StorefrontNext]_storefrontVars
  /\ SessionsFairness /\ CheckoutFairness

(* Every table and page of the eleven keeps its type.                         *)
StorefrontTypeOK ==
  /\ part \in Parts
  /\ SessionsTypeOK /\ OtpTypeOK /\ ReviewsTypeOK /\ CheckoutTypeOK
  /\ CatalogueTypeOK /\ RowLocksTypeOK /\ AssistantTypeOK
  /\ ListingTypeOK /\ VisualSearchTypeOK /\ SocialTypeOK
  /\ ReconciliationTypeOK
=============================================================================
