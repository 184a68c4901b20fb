----------------------------- MODULE Verification ----------------------------
(* backend/src/verification/verification.service.ts: the one-time codes of    *)
(* one user for one channel.  Both operations read, decide, and then write a  *)
(* row in a statement of their own, while other requests do the same.         *)
EXTENDS Integers, Sequences, FiniteSets

CONSTANTS
  OtpRequest,   \* requests served at the same time
  MaxSends,     \* MAX_SENDS_PER_HOUR
  MaxAttempts,  \* MAX_ATTEMPTS
  MaxCodes      \* bound on the codes ever sent

ASSUME OtpAssumption ==
  /\ IsFiniteSet(OtpRequest) /\ OtpRequest # {}
  /\ MaxSends \in Nat \ {0} /\ MaxAttempts \in Nat \ {0} /\ MaxCodes \in Nat

VARIABLES
  codes,        \* verification_codes, in order of creation
  tried,        \* wrong guesses that were compared with each code
  verified,     \* users.email_verified (or phone_verified)
  otp           \* the requests in flight

otpVars == <<codes, tried, verified, otp>>

(* How old a code is: within the cooldown, within its five minutes, within    *)
(* the hour the cap looks at, older.                                          *)
Age == {"COOLING", "LIVE", "EXPIRED", "OLD"}
Code == [age : Age, attempts : Nat, consumed : BOOLEAN]
Fresh == [age |-> "COOLING", attempts |-> 0, consumed |-> FALSE]
NoOtp == [op |-> "idle"]

OtpTypeOK ==
  /\ codes \in Seq(Code) /\ Len(codes) <= MaxCodes
  /\ tried \in [1 .. MaxCodes -> Nat]
  /\ verified \in BOOLEAN
  /\ otp \in [OtpRequest ->
       {NoOtp} \cup [op : {"send"}]
               \cup [op : {"wrong", "right"}, code : 1 .. MaxCodes]]

OtpInit ==
  /\ codes = << >>
  /\ tried = [i \in 1 .. MaxCodes |-> 0]
  /\ verified = FALSE
  /\ otp = [r \in OtpRequest |-> NoOtp]

------------------------------------------------------------------------------
(* sendCode.  enforceRateLimits reads the newest code and counts the hour's.  *)
SentThisHour == {i \in DOMAIN codes : codes[i].age # "OLD"}
Cooling == codes # << >> /\ codes[Len(codes)].age = "COOLING"
OneTooMany == Cardinality(SentThisHour) <= MaxSends
UnderTheCap == Cardinality(SentThisHour) < MaxSends

SendRead(r) ==
  /\ otp[r] = NoOtp
  /\ ~verified
  /\ ~Cooling /\ UnderTheCap
  /\ otp' = [otp EXCEPT ![r] = [op |-> "send"]]
  /\ UNCHANGED <<codes, tried, verified>>

SendWrite(r) ==
  /\ otp[r].op = "send"
  /\ Len(codes) < MaxCodes
  /\ codes' = Append(codes, Fresh)
  /\ otp' = [otp EXCEPT ![r] = NoOtp]
  /\ UNCHANGED <<tried, verified>>

------------------------------------------------------------------------------
(* verifyCode looks at the newest code that is neither consumed nor expired.  *)
Usable(i) == codes[i].age \in {"COOLING", "LIVE"} /\ ~codes[i].consumed
Newest(i) == Usable(i) /\ \A j \in DOMAIN codes : j > i => ~Usable(j)
LocksLate(i) == codes[i].attempts > MaxAttempts
Locked(i) == codes[i].attempts >= MaxAttempts

(* The customer types a code: the one looked at, or anything else.            *)
GuessRead(r, i, right) ==
  /\ otp[r] = NoOtp
  /\ Newest(i) /\ ~Locked(i)
  /\ otp' = [otp EXCEPT ![r] =
               [op |-> IF right THEN "right" ELSE "wrong", code |-> i]]
  /\ tried' = IF right THEN tried ELSE [tried EXCEPT ![i] = @ + 1]
  /\ UNCHANGED <<codes, verified>>

GuessMissed(r) ==
  /\ otp[r].op = "wrong"
  /\ codes' = [codes EXCEPT ![otp[r].code].attempts = @ + 1]
  /\ otp' = [otp EXCEPT ![r] = NoOtp]
  /\ UNCHANGED <<tried, verified>>

(* One transaction consumes the code and verifies the contact.                *)
GuessHit(r) ==
  /\ otp[r].op = "right"
  /\ codes' = [codes EXCEPT ![otp[r].code].consumed = TRUE]
  /\ verified' = TRUE
  /\ otp' = [otp EXCEPT ![r] = NoOtp]
  /\ UNCHANGED tried

(* Time passes; a code never overtakes an older one.                          *)
Older(age) == CASE age = "COOLING" -> "LIVE"
                [] age = "LIVE"    -> "EXPIRED"
                [] age = "EXPIRED" -> "OLD"
                [] age = "OLD"     -> "OLD"
Ages(i) ==
  /\ codes[i].age # "OLD"
  /\ i > 1 => codes[i - 1].age # codes[i].age
  /\ codes' = [codes EXCEPT ![i].age = Older(@)]
  /\ UNCHANGED <<tried, verified, otp>>

OtpNext ==
  \/ \E r \in OtpRequest :
       \/ SendRead(r) \/ SendWrite(r) \/ GuessMissed(r) \/ GuessHit(r)
       \/ \E i \in DOMAIN codes, right \in BOOLEAN : GuessRead(r, i, right)
  \/ \E i \in DOMAIN codes : Ages(i)

OtpSpec == OtpInit /\ [][OtpNext]_otpVars

------------------------------------------------------------------------------
(* Properties.                                                                *)

(* "Locks after 5 wrong guesses" (verification.service.ts:20), with requests  *)
(* in flight: a code is compared with at most MaxAttempts wrong guesses, and  *)
(* one more for each other request that had read it before the last count.    *)
Others == Cardinality(OtpRequest) - 1
GuessesLimited == \A i \in 1 .. MaxCodes : tried[i] <= MaxAttempts + Others

(* "A handful per hour": the same of the codes sent.                          *)
SendsLimited == Cardinality(SentThisHour) <= MaxSends + Others
=============================================================================
