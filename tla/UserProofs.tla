----------------------------- MODULE UserProofs ------------------------------
(* The limits on one-time codes and the count of helpful votes, for any       *)
(* number of requests served at the same time.                                *)
EXTENDS Verification, Reviews, Sessions, FiniteSetTheorems, TLAPS

------------------------------------------------------------------------------
(* Counting the requests that are at some step.                               *)

(* A subset of a finite set that misses one of its elements is smaller.       *)
LEMMA FewerThanAll ==
  ASSUME NEW S, IsFiniteSet(S), NEW T \in SUBSET S, NEW x \in S, x \notin T
  PROVE  /\ IsFiniteSet(T) /\ Cardinality(T) \in Nat
         /\ Cardinality(S) \in Nat
         /\ Cardinality(T) <= Cardinality(S) - 1
<1>1. IsFiniteSet(T)
  BY FS_Subset
<1>2. IsFiniteSet(T \cup {x}) /\ Cardinality(T \cup {x}) = Cardinality(T) + 1
  BY <1>1, FS_AddElement
<1>3. T \cup {x} \in SUBSET S
  OBVIOUS
<1>4. Cardinality(T \cup {x}) <= Cardinality(S)
  BY <1>3, FS_Subset
<1>5. Cardinality(T) \in Nat /\ Cardinality(S) \in Nat
  BY <1>1, FS_CardinalityType
<1> QED BY <1>1, <1>2, <1>4, <1>5

LEMMA OneMore ==
  ASSUME NEW T, IsFiniteSet(T), NEW x, x \notin T
  PROVE  /\ IsFiniteSet(T \cup {x})
         /\ Cardinality(T) \in Nat
         /\ Cardinality(T \cup {x}) = Cardinality(T) + 1
  BY FS_AddElement, FS_CardinalityType

LEMMA OneLess ==
  ASSUME NEW T, IsFiniteSet(T), NEW x, x \in T
  PROVE  /\ IsFiniteSet(T \ {x})
         /\ Cardinality(T) \in Nat
         /\ Cardinality(T \ {x}) = Cardinality(T) - 1
  BY FS_RemoveElement, FS_CardinalityType

------------------------------------------------------------------------------
(* One-time codes.  What a code was compared with is what was counted and     *)
(* what is about to be; the same of what was sent.                            *)
Pending(i) == {r \in OtpRequest : otp[r].op = "wrong" /\ otp[r].code = i}
Asking == {r \in OtpRequest : otp[r].op = "send"}

TriedIsCounted ==
  \A i \in 1 .. MaxCodes :
    IF i \in DOMAIN codes
    THEN tried[i] = codes[i].attempts + Cardinality(Pending(i))
    ELSE tried[i] = 0 /\ Pending(i) = {}
SentOrAsked ==
  Cardinality(SentThisHour) + Cardinality(Asking) <= MaxSends + Others

OtpInv == OtpTypeOK /\ TriedIsCounted /\ GuessesLimited /\ SentOrAsked

LEMMA OtpFinite ==
  /\ Cardinality(OtpRequest) \in Nat \ {0} /\ Others \in Nat
  /\ \A i : IsFiniteSet(Pending(i)) /\ Cardinality(Pending(i)) \in Nat
  /\ IsFiniteSet(Asking) /\ Cardinality(Asking) \in Nat
<1>1. Cardinality(OtpRequest) \in Nat /\ Cardinality(OtpRequest) # 0
  BY OtpAssumption, FS_CardinalityType, FS_EmptySet
<1>2. \A i : Pending(i) \in SUBSET OtpRequest
  BY DEF Pending
<1>3. Asking \in SUBSET OtpRequest
  BY DEF Asking
<1>4. \A T \in SUBSET OtpRequest : IsFiniteSet(T) /\ Cardinality(T) \in Nat
  BY OtpAssumption, FS_Subset, FS_CardinalityType
<1> QED BY <1>1, <1>2, <1>3, <1>4 DEF Others

LEMMA HourFinite ==
  ASSUME OtpTypeOK
  PROVE  IsFiniteSet(SentThisHour) /\ Cardinality(SentThisHour) \in Nat
<1>1. Len(codes) \in Nat /\ DOMAIN codes = 1 .. Len(codes)
  BY DEF OtpTypeOK
<1>2. IsFiniteSet(1 .. Len(codes))
  BY <1>1, FS_Interval
<1>3. SentThisHour \in SUBSET (1 .. Len(codes))
  BY <1>1 DEF SentThisHour
<1> QED BY <1>2, <1>3, FS_Subset, FS_CardinalityType

LEMMA OtpStart == OtpInit => OtpInv
<1> SUFFICES ASSUME OtpInit PROVE OtpInv
  OBVIOUS
<1> USE DEF OtpInit
<1>1. OtpTypeOK
  <2>1. codes \in Seq(Code) /\ Len(codes) = 0
    OBVIOUS
  <2>2. tried \in [1 .. MaxCodes -> Nat] /\ verified \in BOOLEAN
    OBVIOUS
  <2>3. Len(codes) <= MaxCodes
    BY <2>1, OtpAssumption
  <2>4. otp \in [OtpRequest -> {NoOtp}]
    OBVIOUS
  <2> QED BY ONLY <2>1, <2>2, <2>3, <2>4, Zenon DEF OtpTypeOK
<1>2. DOMAIN codes = {}
  OBVIOUS
<1>3. \A i : Pending(i) = {}
  BY DEF Pending, NoOtp
<1>4. Asking = {} /\ SentThisHour = {}
  BY <1>2 DEF Asking, NoOtp, SentThisHour
<1>5. TriedIsCounted
  BY <1>2, <1>3 DEF TriedIsCounted
<1>6. Others \in Nat
  BY OtpFinite
<1>7. GuessesLimited
  BY <1>6, OtpAssumption DEF GuessesLimited
<1>8. SentOrAsked
  BY <1>4, <1>6, FS_EmptySet, OtpAssumption DEF SentOrAsked
<1> QED BY <1>1, <1>5, <1>7, <1>8 DEF OtpInv

(* One request moves from one step to another: what that does to the counts.  *)
LEMMA OneRequestMoves ==
  ASSUME OtpTypeOK, NEW r \in OtpRequest, NEW q, otp' = [otp EXCEPT ![r] = q]
  PROVE  /\ \A i : Pending(i)' = IF q.op = "wrong" /\ q.code = i
                                 THEN Pending(i) \cup {r}
                                 ELSE Pending(i) \ {r}
         /\ Asking' = IF q.op = "send" THEN Asking \cup {r} ELSE Asking \ {r}
<1>1. \A x \in OtpRequest : otp'[x] = IF x = r THEN q ELSE otp[x]
  BY DEF OtpTypeOK
<1> QED BY <1>1 DEF Pending, Asking

LEMMA BecomesIdle ==
  ASSUME OtpTypeOK, NEW r \in OtpRequest,
         otp' = [otp EXCEPT ![r] = NoOtp]
  PROVE  /\ \A i : Pending(i)' = Pending(i) \ {r}
         /\ Asking' = Asking \ {r}
<1> DEFINE q == NoOtp
<1>1. q.op # "wrong" /\ q.op # "send"
  BY DEF NoOtp
<1>2. otp' = [otp EXCEPT ![r] = q]
  OBVIOUS
<1> HIDE DEF q
<1> QED BY <1>1, <1>2, OneRequestMoves

(* A request that was idle was counted nowhere.                               *)
LEMMA WasIdle ==
  ASSUME NEW r \in OtpRequest, otp[r] = NoOtp
  PROVE  /\ \A i : r \notin Pending(i)
         /\ r \notin Asking
         /\ Cardinality(Asking) <= Others
         /\ \A i : Cardinality(Pending(i)) <= Others
<1>1. r \notin Asking /\ \A i : r \notin Pending(i)
  BY DEF NoOtp, Pending, Asking
<1>2. Asking \in SUBSET OtpRequest /\ \A i : Pending(i) \in SUBSET OtpRequest
  BY DEF Pending, Asking
<1> QED BY <1>1, <1>2, OtpAssumption, FewerThanAll DEF Others

(* Only ages, or only one count, change in a code: it stays a code.           *)
LEMMA SendReadKeeps ==
  ASSUME OtpInv, NEW r \in OtpRequest, SendRead(r)
  PROVE  OtpInv'
<1> DEFINE q == [op |-> "send"]
<1>1. /\ otp' = [otp EXCEPT ![r] = q] /\ otp[r] = NoOtp /\ UnderTheCap
      /\ UNCHANGED <<codes, tried, verified>>
  BY DEF SendRead
<1>2. q.op = "send"
  OBVIOUS
<1>3. OtpTypeOK'
  BY <1>1 DEF OtpInv, OtpTypeOK
<1> HIDE DEF q
<1>4. /\ \A i : Pending(i)' = Pending(i) \ {r}
      /\ Asking' = Asking \cup {r}
  BY <1>1, <1>2, OneRequestMoves DEF OtpInv
<1>5. r \notin Asking /\ Cardinality(Asking) <= Others
  BY <1>1, WasIdle
<1>6. \A i : Pending(i)' = Pending(i)
  BY <1>1, <1>4, WasIdle
<1>7. Cardinality(Asking') = Cardinality(Asking) + 1
  BY <1>4, <1>5, OtpFinite, OneMore
<1>8. SentThisHour' = SentThisHour
  BY <1>1 DEF SentThisHour
<1>9. SentOrAsked'
  <2>1. Cardinality(SentThisHour) < MaxSends
    BY <1>1 DEF UnderTheCap
  <2>2. Cardinality(SentThisHour) \in Nat
    BY HourFinite DEF OtpInv
  <2> QED
    BY <1>5, <1>7, <1>8, <2>1, <2>2, OtpFinite, OtpAssumption
    DEF SentOrAsked, Others
<1>10. TriedIsCounted' /\ GuessesLimited'
  BY <1>1, <1>6 DEF OtpInv, TriedIsCounted, GuessesLimited, Others
<1> QED BY <1>3, <1>9, <1>10 DEF OtpInv

LEMMA SendWriteKeeps ==
  ASSUME OtpInv, NEW r \in OtpRequest, SendWrite(r)
  PROVE  OtpInv'
<1>1. /\ otp' = [otp EXCEPT ![r] = NoOtp] /\ otp[r].op = "send"
      /\ codes' = Append(codes, Fresh) /\ Len(codes) < MaxCodes
      /\ UNCHANGED <<tried, verified>>
  BY DEF SendWrite
<1>2. OtpTypeOK
  BY DEF OtpInv
<1>3. Fresh \in Code
  BY DEF Fresh, Code, Age
<1>4. /\ codes' \in Seq(Code) /\ Len(codes') = Len(codes) + 1
      /\ Len(codes) \in Nat
      /\ DOMAIN codes = 1 .. Len(codes)
      /\ DOMAIN codes' = 1 .. (Len(codes) + 1)
      /\ \A i \in 1 .. Len(codes) : codes'[i] = codes[i]
      /\ codes'[Len(codes) + 1] = Fresh
  BY <1>1, <1>2, <1>3 DEF OtpTypeOK
<1>5. OtpTypeOK'
  BY <1>1, <1>2, <1>4, OtpAssumption DEF OtpTypeOK
<1>6. /\ \A i : Pending(i)' = Pending(i) \ {r}
      /\ Asking' = Asking \ {r}
  BY <1>1, <1>2, BecomesIdle
<1>7. r \in Asking /\ \A i : r \notin Pending(i)
  BY <1>1 DEF Asking, Pending
<1>8. \A i : Pending(i)' = Pending(i)
  BY <1>6, <1>7
<1>9. Cardinality(Asking') = Cardinality(Asking) - 1
  BY <1>6, <1>7, OtpFinite, OneLess
<1>10. SentThisHour' = SentThisHour \cup {Len(codes) + 1}
  BY <1>4 DEF SentThisHour, Fresh
<1>11. Cardinality(SentThisHour') = Cardinality(SentThisHour) + 1
  <2>1. Len(codes) + 1 \notin SentThisHour
    BY <1>4 DEF SentThisHour
  <2> QED BY <1>2, <1>10, <2>1, HourFinite, OneMore
<1>12. SentOrAsked'
  BY <1>2, <1>9, <1>11, HourFinite, OtpFinite
  DEF OtpInv, SentOrAsked, Others
<1>13. TriedIsCounted'
  <2>1. Fresh.attempts = 0
    BY DEF Fresh
  <2>2. Len(codes) + 1 \in 1 .. MaxCodes
    BY <1>1, <1>4, OtpAssumption
  <2>3. Len(codes) + 1 \notin DOMAIN codes
    BY <1>4
  <2>4. Pending(Len(codes) + 1) = {} /\ tried[Len(codes) + 1] = 0
    BY <2>2, <2>3 DEF OtpInv, TriedIsCounted
  <2>5. Cardinality({}) = 0
    BY FS_EmptySet
  <2> SUFFICES ASSUME NEW i \in 1 .. MaxCodes
               PROVE  IF i \in DOMAIN codes'
                      THEN tried'[i] =
                             codes'[i].attempts + Cardinality(Pending(i)')
                      ELSE tried'[i] = 0 /\ Pending(i)' = {}
    BY DEF TriedIsCounted
  <2>6. CASE i = Len(codes) + 1
    <3>1. i \in DOMAIN codes' /\ codes'[i].attempts = 0
      BY <1>4, <2>1, <2>6
    <3>2. tried'[i] = 0
      BY <1>1, <2>4, <2>6
    <3>3. Cardinality(Pending(i)') = 0
      BY <1>8, <2>4, <2>5, <2>6
    <3> QED BY <3>1, <3>2, <3>3
  <2>7. CASE i # Len(codes) + 1
    BY <1>1, <1>4, <1>8, <2>7 DEF OtpInv, TriedIsCounted
  <2> QED BY <2>6, <2>7
<1>14. GuessesLimited'
  BY <1>1 DEF OtpInv, GuessesLimited, Others
<1> QED BY <1>5, <1>12, <1>13, <1>14 DEF OtpInv

(* A guess is compared only while the count is below the limit.               *)
LEMMA GuessReadKeeps ==
  ASSUME OtpInv, NEW r \in OtpRequest, NEW i \in DOMAIN codes,
         NEW right \in BOOLEAN, GuessRead(r, i, right)
  PROVE  OtpInv'
<1> DEFINE q == [op |-> IF right THEN "right" ELSE "wrong", code |-> i]
<1>1. /\ otp' = [otp EXCEPT ![r] = q] /\ otp[r] = NoOtp /\ ~Locked(i)
      /\ tried' = IF right THEN tried ELSE [tried EXCEPT ![i] = @ + 1]
      /\ UNCHANGED <<codes, verified>>
  BY DEF GuessRead
<1>2. OtpTypeOK
  BY DEF OtpInv
<1>3. DOMAIN codes = 1 .. Len(codes) /\ i \in 1 .. MaxCodes
  BY <1>2, OtpAssumption DEF OtpTypeOK
<1>4. q.op = (IF right THEN "right" ELSE "wrong") /\ q.code = i
  OBVIOUS
<1>5. OtpTypeOK'
  <2>1. q \in [op : {"wrong", "right"}, code : 1 .. MaxCodes]
    BY <1>3
  <2>2. tried' \in [1 .. MaxCodes -> Nat]
    BY <1>1, <1>2, <1>3 DEF OtpTypeOK
  <2> HIDE DEF q
  <2> QED BY <1>1, <1>2, <2>1, <2>2 DEF OtpTypeOK
<1> HIDE DEF q
<1>6. /\ \A j : r \notin Pending(j)
      /\ r \notin Asking
      /\ Cardinality(Pending(i)) <= Others
  BY <1>1, WasIdle
<1>7. /\ \A j : Pending(j)' = IF ~right /\ j = i THEN Pending(j) \cup {r}
                              ELSE Pending(j) \ {r}
      /\ Asking' = Asking \ {r}
  <2>1. /\ \A j : Pending(j)' = IF q.op = "wrong" /\ q.code = j
                                THEN Pending(j) \cup {r}
                                ELSE Pending(j) \ {r}
        /\ Asking' = IF q.op = "send" THEN Asking \cup {r}
                     ELSE Asking \ {r}
    BY <1>1, <1>2, OneRequestMoves
  <2> QED BY <2>1, <1>4
<1>8. Asking' = Asking /\ SentThisHour' = SentThisHour
  BY <1>1, <1>6, <1>7 DEF SentThisHour
<1>9. SentOrAsked'
  BY <1>8 DEF OtpInv, SentOrAsked, Others
<1>10. CASE right
  <2>1. \A j : Pending(j)' = Pending(j)
    BY <1>6, <1>7, <1>10
  <2> QED BY <1>1, <1>5, <1>9, <1>10, <2>1
          DEF OtpInv, TriedIsCounted, GuessesLimited, Others
<1>11. CASE ~right
  <2>1. /\ \A j : j # i => Pending(j)' = Pending(j)
        /\ Cardinality(Pending(i)') = Cardinality(Pending(i)) + 1
    BY <1>6, <1>7, <1>11, OtpFinite, OneMore
  <2>2. /\ tried'[i] = tried[i] + 1
        /\ \A j \in 1 .. MaxCodes : j # i => tried'[j] = tried[j]
    BY <1>1, <1>2, <1>3, <1>11 DEF OtpTypeOK
  <2>3. /\ tried[i] = codes[i].attempts + Cardinality(Pending(i))
        /\ codes[i].attempts \in Nat
    <3>1. codes[i] \in Code
      BY <1>2 DEF OtpTypeOK
    <3>2. codes[i].attempts \in Nat
      BY <3>1 DEF Code
    <3> QED BY <1>3, <3>2 DEF OtpInv, TriedIsCounted
  <2>4. TriedIsCounted'
    BY <1>1, <1>3, <2>1, <2>2, <2>3, OtpFinite DEF OtpInv, TriedIsCounted
  <2>5. tried'[i] <= MaxAttempts + Others
    BY <1>1, <1>6, <2>2, <2>3, OtpFinite, OtpAssumption DEF Locked
  <2>6. GuessesLimited'
    BY <2>2, <2>5 DEF OtpInv, GuessesLimited, Others
  <2> QED BY <1>5, <1>9, <2>4, <2>6 DEF OtpInv
<1> QED BY <1>10, <1>11

(* One code changes.                                                          *)
LEMMA OneCodeChanges ==
  ASSUME OtpTypeOK, NEW j \in DOMAIN codes, NEW c \in Code,
         codes' = [codes EXCEPT ![j] = c]
  PROVE  /\ codes' \in Seq(Code) /\ Len(codes') = Len(codes)
         /\ DOMAIN codes' = DOMAIN codes
         /\ \A i \in DOMAIN codes : codes'[i] = IF i = j THEN c ELSE codes[i]
  BY DEF OtpTypeOK

(* What the counts are made of stays: so do the counts.                       *)
LEMMA CountsStay ==
  ASSUME OtpInv, NEW r \in OtpRequest, otp' = [otp EXCEPT ![r] = NoOtp],
         otp[r].op = "right", DOMAIN codes' = DOMAIN codes,
         \A i \in DOMAIN codes : /\ codes'[i].attempts = codes[i].attempts
                                 /\ codes'[i].age = codes[i].age,
         tried' = tried
  PROVE  TriedIsCounted' /\ GuessesLimited' /\ SentOrAsked'
<1>1. r \notin Asking /\ \A i : r \notin Pending(i)
  BY DEF Asking, Pending
<1>2. (\A i : Pending(i)' = Pending(i)) /\ Asking' = Asking
  BY <1>1, BecomesIdle DEF OtpInv
<1>3. SentThisHour' = SentThisHour
  BY DEF SentThisHour
<1> QED BY <1>2, <1>3
        DEF OtpInv, TriedIsCounted, GuessesLimited, SentOrAsked, Others

LEMMA GuessMissedKeeps ==
  ASSUME OtpInv, NEW r \in OtpRequest, GuessMissed(r)
  PROVE  OtpInv'
<1>1. /\ otp' = [otp EXCEPT ![r] = NoOtp] /\ otp[r].op = "wrong"
      /\ UNCHANGED <<tried, verified>>
  BY DEF GuessMissed
<1>2. OtpTypeOK /\ TriedIsCounted
  BY DEF OtpInv
<1>3. PICK i \in 1 .. MaxCodes : otp[r].code = i
  <2>1. otp[r] \in {NoOtp} \cup [op : {"send"}]
               \cup [op : {"wrong", "right"}, code : 1 .. MaxCodes]
    BY <1>2, Zenon DEF OtpTypeOK
  <2>2. otp[r] \in [op : {"wrong", "right"}, code : 1 .. MaxCodes]
    BY <1>1, <2>1 DEF NoOtp
  <2> QED BY <2>2
<1> DEFINE c == [codes[i] EXCEPT !.attempts = @ + 1]
<1>0. codes' = [codes EXCEPT ![i] = c]
  BY <1>3 DEF GuessMissed
<1>4. r \in Pending(i) /\ r \notin Asking
  BY <1>1, <1>3 DEF Pending, Asking
<1>5. i \in DOMAIN codes
  BY <1>2, <1>3, <1>4 DEF TriedIsCounted
<1>6. codes[i] \in Code
  BY <1>2, <1>5 DEF OtpTypeOK
<1>7. /\ c \in Code /\ c.attempts = codes[i].attempts + 1
      /\ c.age = codes[i].age /\ codes[i].attempts \in Nat
  BY <1>6 DEF Code
<1> HIDE DEF c
<1>8. /\ codes' \in Seq(Code) /\ Len(codes') = Len(codes)
      /\ DOMAIN codes' = DOMAIN codes
      /\ \A j \in DOMAIN codes : codes'[j] = IF j = i THEN c ELSE codes[j]
  BY <1>0, <1>2, <1>5, <1>7, OneCodeChanges
<1>9. OtpTypeOK'
  BY <1>1, <1>2, <1>8 DEF OtpTypeOK
<1>10. /\ \A j : Pending(j)' = Pending(j) \ {r}
       /\ Asking' = Asking
  BY <1>1, <1>2, <1>4, BecomesIdle
<1>11. SentThisHour' = SentThisHour
  BY <1>7, <1>8 DEF SentThisHour
<1>12. SentOrAsked' /\ GuessesLimited'
  BY <1>1, <1>10, <1>11 DEF OtpInv, SentOrAsked, GuessesLimited, Others
<1>13. Cardinality(Pending(i)') = Cardinality(Pending(i)) - 1
  BY <1>4, <1>10, OtpFinite, OneLess
<1>14. \A j : j # i => Pending(j)' = Pending(j)
  BY <1>3, <1>10 DEF Pending
<1>15. tried[i] = codes[i].attempts + Cardinality(Pending(i))
  BY <1>2, <1>3, <1>5 DEF TriedIsCounted
<1>16. TriedIsCounted'
  <2> SUFFICES ASSUME NEW j \in 1 .. MaxCodes
               PROVE  IF j \in DOMAIN codes'
                      THEN tried'[j] =
                             codes'[j].attempts + Cardinality(Pending(j)')
                      ELSE tried'[j] = 0 /\ Pending(j)' = {}
    BY DEF TriedIsCounted
  <2>1. CASE j = i
    <3>1. tried'[i] = tried[i] /\ codes'[i].attempts = codes[i].attempts + 1
      BY <1>1, <1>5, <1>7, <1>8
    <3>2. tried'[i] = codes'[i].attempts + Cardinality(Pending(i)')
      BY <3>1, <1>7, <1>13, <1>15, OtpFinite
    <3> QED BY <2>1, <3>2, <1>5, <1>8
  <2>2. CASE j # i
    BY <1>1, <1>2, <1>8, <1>14, <2>2 DEF TriedIsCounted
  <2> QED BY <2>1, <2>2
<1> QED BY <1>9, <1>12, <1>16 DEF OtpInv

LEMMA GuessHitKeeps ==
  ASSUME OtpInv, NEW r \in OtpRequest, GuessHit(r)
  PROVE  OtpInv'
<1> DEFINE i == otp[r].code
           c == [codes[i] EXCEPT !.consumed = TRUE]
<1>1. /\ otp' = [otp EXCEPT ![r] = NoOtp] /\ otp[r].op = "right"
      /\ codes' = [codes EXCEPT ![i] = c]
      /\ verified' = TRUE /\ tried' = tried
  BY DEF GuessHit
<1>2. OtpTypeOK
  BY DEF OtpInv
<1>3. /\ codes' \in Seq(Code) /\ Len(codes') = Len(codes)
      /\ DOMAIN codes' = DOMAIN codes
      /\ \A j \in DOMAIN codes : /\ codes'[j].attempts = codes[j].attempts
                                 /\ codes'[j].age = codes[j].age
  <2>1. CASE i \in DOMAIN codes
    <3>1. codes[i] \in Code
      BY <1>2, <2>1 DEF OtpTypeOK
    <3>2. /\ c \in Code /\ c.age = codes[i].age
          /\ c.attempts = codes[i].attempts
      BY <3>1 DEF Code
    <3> HIDE DEF c
    <3> QED BY <1>1, <1>2, <2>1, <3>2, OneCodeChanges
  <2>2. CASE i \notin DOMAIN codes
    <3> HIDE DEF c, i
    <3>1. codes' = codes
      BY <1>1, <1>2, <2>2 DEF OtpTypeOK
    <3> QED BY <1>2, <3>1 DEF OtpTypeOK
  <2> QED BY <2>1, <2>2
<1>4. OtpTypeOK'
  BY <1>1, <1>2, <1>3 DEF OtpTypeOK
<1> QED BY <1>1, <1>3, <1>4, CountsStay DEF OtpInv

(* Time only takes codes out of the hour.                                     *)
LEMMA AgesKeeps ==
  ASSUME OtpInv, NEW i \in DOMAIN codes, Ages(i)
  PROVE  OtpInv'
<1> DEFINE c == [codes[i] EXCEPT !.age = Older(@)]
<1>1. /\ codes' = [codes EXCEPT ![i] = c] /\ codes[i].age # "OLD"
      /\ UNCHANGED <<tried, verified, otp>>
  BY DEF Ages
<1>2. OtpTypeOK
  BY DEF OtpInv
<1>3. codes[i] \in Code
  BY <1>2 DEF OtpTypeOK
<1>4. Older(codes[i].age) \in Age
  BY <1>3 DEF Code, Age, Older
<1>5. c \in Code /\ c.attempts = codes[i].attempts
  BY <1>3, <1>4 DEF Code
<1> HIDE DEF c
<1>6. /\ codes' \in Seq(Code) /\ Len(codes') = Len(codes)
      /\ DOMAIN codes' = DOMAIN codes
      /\ \A j \in DOMAIN codes : codes'[j] = IF j = i THEN c ELSE codes[j]
  BY <1>1, <1>2, <1>5, OneCodeChanges
<1>7. OtpTypeOK'
  BY <1>1, <1>2, <1>6 DEF OtpTypeOK
<1>8. (\A j : Pending(j)' = Pending(j)) /\ Asking' = Asking
  BY <1>1 DEF Pending, Asking
<1>9. SentThisHour' \in SUBSET SentThisHour
  BY <1>1, <1>6 DEF SentThisHour
<1>10. Cardinality(SentThisHour') <= Cardinality(SentThisHour)
  BY <1>2, <1>9, HourFinite, FS_Subset
<1>11. Cardinality(SentThisHour') \in Nat
  BY <1>2, <1>9, HourFinite, FS_Subset, FS_CardinalityType
<1>12. SentOrAsked'
  BY <1>2, <1>8, <1>10, <1>11, HourFinite, OtpFinite, OtpAssumption
  DEF OtpInv, SentOrAsked, Others
<1>13. \A j \in DOMAIN codes : codes'[j].attempts = codes[j].attempts
  BY <1>5, <1>6
<1>14. TriedIsCounted' /\ GuessesLimited'
  BY <1>1, <1>6, <1>8, <1>13
  DEF OtpInv, TriedIsCounted, GuessesLimited, Others
<1> QED BY <1>7, <1>12, <1>14 DEF OtpInv

LEMMA OtpKeeps ==
  ASSUME OtpInv, [OtpNext]_otpVars
  PROVE  OtpInv'
<1>1. ASSUME NEW r \in OtpRequest, SendRead(r) PROVE OtpInv'
  BY <1>1, SendReadKeeps
<1>2. ASSUME NEW r \in OtpRequest, SendWrite(r) PROVE OtpInv'
  BY <1>2, SendWriteKeeps
<1>3. ASSUME NEW r \in OtpRequest, GuessMissed(r) PROVE OtpInv'
  BY <1>3, GuessMissedKeeps
<1>4. ASSUME NEW r \in OtpRequest, GuessHit(r) PROVE OtpInv'
  BY <1>4, GuessHitKeeps
<1>5. ASSUME NEW r \in OtpRequest, NEW i \in DOMAIN codes,
             NEW right \in BOOLEAN, GuessRead(r, i, right)
      PROVE  OtpInv'
  BY <1>5, GuessReadKeeps
<1>6. ASSUME NEW i \in DOMAIN codes, Ages(i) PROVE OtpInv'
  BY <1>6, AgesKeeps
<1>7. CASE UNCHANGED otpVars
  BY <1>7
  DEF otpVars, OtpInv, OtpTypeOK, TriedIsCounted, GuessesLimited,
      SentOrAsked, Pending, Asking, SentThisHour, Others
<1> QED BY <1>1, <1>2, <1>3, <1>4, <1>5, <1>6, <1>7 DEF OtpNext

(* verifyCode reads the count, compares and counts in separate statements     *)
(* (verification.service.ts:103-139): with n requests at once a code is       *)
(* compared with at most n - 1 more wrong guesses than its limit.             *)
THEOREM GuessesBounded == OtpSpec => []GuessesLimited
<1>1. OtpInv => GuessesLimited
  BY DEF OtpInv
<1> QED BY <1>1, OtpStart, OtpKeeps, PTL DEF OtpSpec

(* sendCode counts the hour's codes before it creates one: with n requests at *)
(* once a contact gets at most n - 1 more codes in an hour than the cap.      *)
THEOREM SendsBounded == OtpSpec => []SendsLimited
<1>1. ASSUME OtpInv PROVE SendsLimited
  BY <1>1, HourFinite, OtpFinite, OtpAssumption
  DEF OtpInv, SentOrAsked, SendsLimited, Others
<1> QED BY <1>1, OtpStart, OtpKeeps, PTL DEF OtpSpec

------------------------------------------------------------------------------
(* Reviews.  A vote is a vote on a review that exists: that is what lets a    *)
(* request that meant another review, since removed, still count right.       *)
Voted == {v \in Voter : vote[v] # 0}

ReviewsInv ==
  /\ ReviewsTypeOK
  /\ review.helpfulCount = Cardinality(Voted)
  /\ ~Exists => Voted = {}
  /\ \A r \in ReviewRequest : post[r].op = "toggle" => post[r].id # 0

LEMMA VotedFinite == IsFiniteSet(Voted) /\ Cardinality(Voted) \in Nat
  BY ReviewAssumption, FS_Subset, FS_CardinalityType DEF Voted

LEMMA ReviewsStart == ReviewsInit => ReviewsInv
<1> SUFFICES ASSUME ReviewsInit PROVE ReviewsInv
  OBVIOUS
<1>1. Voted = {}
  BY DEF ReviewsInit, Voted
<1>2. review.helpfulCount = 0
  BY DEF ReviewsInit, NoReview
<1>3. ReviewsTypeOK
  BY ReviewAssumption DEF ReviewsInit, ReviewsTypeOK, NoReview, RowId
<1>4. \A r \in ReviewRequest : post[r].op # "toggle"
  BY DEF ReviewsInit, NoPost
<1> QED BY <1>1, <1>2, <1>3, <1>4, FS_EmptySet DEF ReviewsInv

(* A request that ends leaves the others as they were.                        *)
LEMMA EndsKeeps ==
  ASSUME ReviewsInv, NEW r \in ReviewRequest, Ends(r)
  PROVE  /\ post' \in [ReviewRequest ->
              {NoPost} \cup [op : {"create"}]
                \cup [op : OnReview, id : RowId]
                \cup [op : {"toggle"}, id : RowId, voter : Voter, saw : RowId]]
         /\ \A x \in ReviewRequest : post'[x].op = "toggle" => post'[x].id # 0
<1> DEFINE q == NoPost
<1>1. q \in {NoPost} /\ q.op # "toggle"
  BY DEF NoPost
<1>2. post' = [post EXCEPT ![r] = q]
  BY DEF Ends
<1>3. post \in [ReviewRequest ->
              {NoPost} \cup [op : {"create"}]
                \cup [op : OnReview, id : RowId]
                \cup [op : {"toggle"}, id : RowId, voter : Voter, saw : RowId]]
  BY DEF ReviewsInv, ReviewsTypeOK
<1> HIDE DEF q
<1>4. \A x \in ReviewRequest : post'[x] = IF x = r THEN q ELSE post[x]
  BY <1>2, <1>3
<1>5. \A x \in ReviewRequest : post'[x].op = "toggle" => post'[x].id # 0
  BY <1>1, <1>4 DEF ReviewsInv
<1> QED BY <1>1, <1>2, <1>3, <1>5

(* A request that begins says what it read, and touches nothing.              *)
LEMMA BeginsKeeps ==
  ASSUME ReviewsInv, NEW r \in ReviewRequest, NEW q, Begins(r, q),
         q \in [op : {"create"}] \cup [op : OnReview, id : RowId]
               \cup [op : {"toggle"}, id : RowId, voter : Voter, saw : RowId],
         q.op = "toggle" => q.id # 0
  PROVE  ReviewsInv'
<1>1. /\ post' = [post EXCEPT ![r] = q]
      /\ UNCHANGED <<review, vote, reports, lastId>>
  BY DEF Begins
<1>2. post \in [ReviewRequest ->
              {NoPost} \cup [op : {"create"}]
                \cup [op : OnReview, id : RowId]
                \cup [op : {"toggle"}, id : RowId, voter : Voter, saw : RowId]]
  BY DEF ReviewsInv, ReviewsTypeOK
<1>3. \A x \in ReviewRequest : post'[x] = IF x = r THEN q ELSE post[x]
  BY <1>1, <1>2
<1>4. \A x \in ReviewRequest : post'[x].op = "toggle" => post'[x].id # 0
  BY <1>3 DEF ReviewsInv
<1>5. ReviewsTypeOK'
  BY <1>1, <1>2 DEF ReviewsInv, ReviewsTypeOK
<1> QED BY <1>1, <1>4, <1>5 DEF ReviewsInv, Exists, Voted

LEMMA CreateInsertKeeps ==
  ASSUME ReviewsInv, NEW r \in ReviewRequest, CreateInsert(r)
  PROVE  ReviewsInv'
<1> DEFINE made == [id |-> lastId + 1, status |-> "PUBLISHED",
                    helpfulCount |-> 0]
<1>1. /\ Ends(r) /\ lastId < MaxRows /\ UNCHANGED <<vote, reports>>
      /\ IF Exists THEN UNCHANGED <<review, lastId>>
         ELSE lastId' = lastId + 1 /\ review' = made
  BY DEF CreateInsert
<1>2. ReviewsTypeOK /\ lastId \in Nat /\ Voted' = Voted
  BY <1>1, ReviewAssumption DEF ReviewsInv, ReviewsTypeOK, RowId, Voted
<1>3. CASE Exists
  BY <1>1, <1>2, <1>3, EndsKeeps DEF ReviewsInv, ReviewsTypeOK, Exists
<1>4. CASE ~Exists
  <2>1. lastId + 1 \in RowId /\ lastId + 1 # 0
    BY <1>1, <1>2, ReviewAssumption DEF RowId
  <2>2. /\ made \in [id : RowId, status : {"NONE", "PUBLISHED", "HIDDEN"},
                     helpfulCount : Int]
        /\ made.id # 0 /\ made.helpfulCount = 0
    BY <2>1
  <2>3. Voted' = {}
    BY <1>2, <1>4 DEF ReviewsInv
  <2> HIDE DEF made
  <2>4. ReviewsTypeOK'
    BY <1>1, <1>2, <1>4, <2>1, <2>2, EndsKeeps DEF ReviewsTypeOK
  <2> QED BY <1>1, <1>4, <2>2, <2>3, <2>4, EndsKeeps, FS_EmptySet
          DEF ReviewsInv, Exists
<1> QED BY <1>3, <1>4

(* What the two sides of a toggle do to the votes.                            *)
LEMMA VoteSet ==
  ASSUME ReviewsInv, NEW v \in Voter, NEW n \in RowId,
         vote' = [vote EXCEPT ![v] = n]
  PROVE  /\ vote' \in [Voter -> RowId]
         /\ Voted' = IF n = 0 THEN Voted \ {v} ELSE Voted \cup {v}
<1>1. vote \in [Voter -> RowId]
  BY DEF ReviewsInv, ReviewsTypeOK
<1>2. \A x \in Voter : vote'[x] = IF x = v THEN n ELSE vote[x]
  BY <1>1
<1> QED BY <1>1, <1>2 DEF Voted

LEMMA CountedMoves ==
  ASSUME ReviewsInv, NEW n \in Int, Counted(n)
  PROVE  /\ review' \in [id : RowId, status : {"NONE", "PUBLISHED", "HIDDEN"},
                         helpfulCount : Int]
         /\ review'.id = review.id
         /\ review'.helpfulCount = Cardinality(Voted) + n
  BY DEF ReviewsInv, ReviewsTypeOK, Counted

LEMMA ToggleWriteKeeps ==
  ASSUME ReviewsInv, NEW r \in ReviewRequest, ToggleWrite(r)
  PROVE  ReviewsInv'
<1>1. PICK q : q = post[r]
  OBVIOUS
<1>2. /\ Ends(r) /\ q.op = "toggle" /\ lastId < MaxRows /\ reports' = reports
      /\ CASE Deletes(q) -> /\ vote' = [vote EXCEPT ![q.voter] = 0]
                            /\ Counted(-1)
                            /\ UNCHANGED lastId
           [] Inserts(q) -> /\ vote' = [vote EXCEPT ![q.voter] = lastId + 1]
                            /\ Counted(1)
                            /\ lastId' = lastId + 1
           [] OTHER      -> UNCHANGED <<review, vote, lastId>>
  BY <1>1 DEF ToggleWrite
<1>3. q.voter \in Voter /\ q.id # 0
  <2>1. q \in {NoPost} \cup [op : {"create"}]
                \cup [op : OnReview, id : RowId]
                \cup [op : {"toggle"}, id : RowId, voter : Voter, saw : RowId]
    BY <1>1 DEF ReviewsInv, ReviewsTypeOK
  <2>2. q \in [op : {"toggle"}, id : RowId, voter : Voter, saw : RowId]
    BY <1>2, <2>1 DEF NoPost, OnReview
  <2> QED BY <1>1, <1>2, <2>2 DEF ReviewsInv
<1>4. ReviewsTypeOK /\ 0 \in RowId /\ lastId \in Nat /\ lastId + 1 \in RowId
  BY <1>2, ReviewAssumption DEF ReviewsInv, ReviewsTypeOK, RowId
<1>5. PICK v \in Voter : v = q.voter
  BY <1>3
<1>6. Deletes(q) => v \in Voted /\ Exists
  BY <1>5 DEF Deletes, Voted, ReviewsInv
<1>7. Inserts(q) => v \notin Voted /\ Exists /\ ~Deletes(q)
  BY <1>3, <1>5 DEF Inserts, Deletes, Voted, Exists
<1>8. CASE Deletes(q)
  <2>1. /\ vote' = [vote EXCEPT ![v] = 0] /\ Counted(-1)
        /\ UNCHANGED lastId
    BY <1>2, <1>5, <1>7, <1>8, Zenon
  <2>2. Voted' = Voted \ {v} /\ vote' \in [Voter -> RowId]
    BY <1>4, <2>1, VoteSet
  <2>3. Cardinality(Voted') = Cardinality(Voted) - 1
    BY <1>6, <1>8, <2>2, VotedFinite, OneLess
  <2> DEFINE n == -1
  <2>4. n \in Int /\ Counted(n)
    BY <2>1
  <2>5. /\ review' \in [id : RowId, status : {"NONE", "PUBLISHED", "HIDDEN"},
                        helpfulCount : Int]
        /\ review'.id = review.id
        /\ review'.helpfulCount = Cardinality(Voted) + n
    <3> HIDE DEF n
    <3> QED BY <2>4, CountedMoves
  <2>6. review'.helpfulCount = Cardinality(Voted')
    BY <2>3, <2>5, VotedFinite
  <2> HIDE DEF n
  <2>7. ReviewsTypeOK'
    BY <1>2, <1>4, <2>1, <2>2, <2>5, EndsKeeps DEF ReviewsTypeOK
  <2> QED BY <1>2, <1>6, <1>8, <2>5, <2>6, <2>7, EndsKeeps
          DEF ReviewsInv, Exists
<1>9. CASE Inserts(q)
  <2>1. /\ vote' = [vote EXCEPT ![v] = lastId + 1] /\ Counted(1)
        /\ lastId' = lastId + 1
    BY <1>2, <1>5, <1>7, <1>9, Zenon
  <2>2. Voted' = Voted \cup {v} /\ vote' \in [Voter -> RowId]
    <3>1. PICK m \in RowId : m = lastId + 1
      BY <1>4
    <3>2. m # 0 /\ vote' = [vote EXCEPT ![v] = m]
      BY <1>4, <2>1, <3>1
    <3> QED BY <3>2, VoteSet
  <2>3. Cardinality(Voted') = Cardinality(Voted) + 1
    BY <1>7, <1>9, <2>2, VotedFinite, OneMore
  <2>4. /\ review' \in [id : RowId, status : {"NONE", "PUBLISHED", "HIDDEN"},
                        helpfulCount : Int]
        /\ review'.id = review.id
        /\ review'.helpfulCount = Cardinality(Voted')
    BY <2>1, <2>3, CountedMoves
  <2>5. ReviewsTypeOK'
    BY <1>2, <1>4, <2>1, <2>2, <2>4, EndsKeeps DEF ReviewsTypeOK
  <2> QED BY <1>2, <1>7, <1>9, <2>4, <2>5, EndsKeeps DEF ReviewsInv, Exists
<1>10. CASE ~Deletes(q) /\ ~Inserts(q)
  <2>1. UNCHANGED <<review, vote, lastId>>
    BY <1>2, <1>10, Zenon
  <2> QED BY <1>2, <1>4, <2>1, EndsKeeps
          DEF ReviewsInv, ReviewsTypeOK, Exists, Voted
<1> QED BY <1>8, <1>9, <1>10

LEMMA ModerateWriteKeeps ==
  ASSUME ReviewsInv, NEW r \in ReviewRequest, ModerateWrite(r)
  PROVE  ReviewsInv'
<1>1. Ends(r) /\ lastId' = lastId
  BY DEF ModerateWrite
<1>2. ReviewsTypeOK
  BY DEF ReviewsInv
<1>3. CASE UNCHANGED <<review, vote>> /\ reports' \in 0 .. MaxRows
  BY <1>1, <1>2, <1>3, EndsKeeps
  DEF ReviewsInv, ReviewsTypeOK, Exists, Voted
<1>4. CASE \E s \in {"HIDDEN", "PUBLISHED"} :
             /\ review' = [review EXCEPT !.status = s]
             /\ UNCHANGED <<vote, reports>>
  <2>1. PICK s \in {"HIDDEN", "PUBLISHED"} :
          review' = [review EXCEPT !.status = s]
    BY <1>4
  <2>2. /\ review' \in [id : RowId, status : {"NONE", "PUBLISHED", "HIDDEN"},
                        helpfulCount : Int]
        /\ review'.id = review.id
        /\ review'.helpfulCount = review.helpfulCount
    BY <1>2, <2>1 DEF ReviewsTypeOK
  <2>3. Voted' = Voted
    BY <1>4 DEF Voted
  <2>4. ReviewsTypeOK'
    BY <1>1, <1>2, <1>4, <2>2, EndsKeeps DEF ReviewsTypeOK
  <2> QED BY <1>1, <2>2, <2>3, <2>4, EndsKeeps DEF ReviewsInv, Exists
<1>5. CASE review' = NoReview /\ vote' = Cascade /\ reports' = 0
  <2>1. 0 \in RowId /\ 0 \in 0 .. MaxRows
    BY ReviewAssumption DEF RowId
  <2>2. vote' \in [Voter -> RowId] /\ Voted' = {}
    BY <1>5, <2>1 DEF Cascade, Voted
  <2>3. /\ review' \in [id : RowId, status : {"NONE", "PUBLISHED", "HIDDEN"},
                        helpfulCount : Int]
        /\ review'.helpfulCount = 0
    BY <1>5, <2>1 DEF NoReview
  <2>4. ReviewsTypeOK'
    BY <1>1, <1>2, <1>5, <2>1, <2>2, <2>3, EndsKeeps DEF ReviewsTypeOK
  <2> QED BY <1>1, <2>2, <2>3, <2>4, EndsKeeps, FS_EmptySet DEF ReviewsInv
<1>6. reports \in 0 .. MaxRows
  BY <1>2 DEF ReviewsTypeOK
<1>7. reports < MaxRows => reports + 1 \in 0 .. MaxRows
  BY <1>6, ReviewAssumption
<1> QED BY <1>3, <1>4, <1>5, <1>6, <1>7 DEF ModerateWrite

LEMMA ReviewsKeep ==
  ASSUME ReviewsInv, [ReviewsNext]_reviewVars
  PROVE  ReviewsInv'
<1>1. ASSUME NEW r \in ReviewRequest, CreateAsk(r) PROVE ReviewsInv'
  <2> DEFINE q == [op |-> "create"]
  <2>1. q \in [op : {"create"}] /\ q.op # "toggle" /\ Begins(r, q)
    BY <1>1 DEF CreateAsk
  <2> HIDE DEF q
  <2> QED BY <2>1, BeginsKeeps
<1>2. ASSUME NEW r \in ReviewRequest, CreateInsert(r) PROVE ReviewsInv'
  BY <1>2, CreateInsertKeeps
<1>3. ASSUME NEW r \in ReviewRequest, NEW v \in Voter, ToggleRead(r, v)
      PROVE  ReviewsInv'
  <2> DEFINE q == [op |-> "toggle", id |-> review.id, voter |-> v,
                   saw |-> vote[v]]
  <2>1. Exists /\ Begins(r, q)
    BY <1>3 DEF ToggleRead
  <2>2. review.id \in RowId /\ vote[v] \in RowId
    BY DEF ReviewsInv, ReviewsTypeOK
  <2>3. /\ q \in [op : {"toggle"}, id : RowId, voter : Voter, saw : RowId]
        /\ q.id # 0
    BY <2>1, <2>2 DEF Exists
  <2> HIDE DEF q
  <2> QED BY <2>1, <2>3, BeginsKeeps
<1>4. ASSUME NEW r \in ReviewRequest, ToggleWrite(r) PROVE ReviewsInv'
  BY <1>4, ToggleWriteKeeps
<1>5. ASSUME NEW r \in ReviewRequest, NEW op \in OnReview, ModerateRead(r, op)
      PROVE  ReviewsInv'
  <2> DEFINE q == [op |-> op, id |-> review.id]
  <2>1. Begins(r, q)
    BY <1>5 DEF ModerateRead
  <2>2. q \in [op : OnReview, id : RowId] /\ q.op # "toggle"
    BY DEF ReviewsInv, ReviewsTypeOK, OnReview
  <2> HIDE DEF q
  <2> QED BY <2>1, <2>2, BeginsKeeps
<1>6. ASSUME NEW r \in ReviewRequest, ModerateWrite(r) PROVE ReviewsInv'
  BY <1>6, ModerateWriteKeeps
<1>7. CASE UNCHANGED reviewVars
  BY <1>7 DEF reviewVars, ReviewsInv, ReviewsTypeOK, Exists, Voted
<1> QED BY <1>1, <1>2, <1>3, <1>4, <1>5, <1>6, <1>7 DEF ReviewsNext

(* toggleHelpful (reviews.service.ts:248-275) decides on a vote it read       *)
(* before its transaction; the transaction fails whole when that vote is      *)
(* gone or another is there, so the count stays the number of votes.          *)
THEOREM CountTrue == ReviewsSpec => []HelpfulCountsVotes
<1>1. ReviewsInv => HelpfulCountsVotes
  BY DEF ReviewsInv, HelpfulCountsVotes, Voted
<1> QED BY <1>1, ReviewsStart, ReviewsKeep, PTL DEF ReviewsSpec

------------------------------------------------------------------------------
(* The session.  Tokens are only ever added, so that whatever holds a token   *)
(* by its place keeps it.                                                     *)
Status == {"ACTIVE", "REVOKED", "LAPSED"}
RefreshStep ==
  {"none", "find", "alarm", "revoke", "mint", "answer", "refused"}
Flight(n) == [step : RefreshStep, token : 0 .. n]
PageRequest(n) ==
  [step : {"idle", "sent", "waiting", "done", "failed"},
   client : Client \cup {"http"}, bearer : 0 .. n, retried : BOOLEAN]

LEMMA Places ==
  ASSUME NEW n \in Nat, NEW m \in Nat, n <= m
  PROVE  /\ 0 .. n \subseteq 0 .. m
         /\ \A f \in Flight(n) : f \in Flight(m)
         /\ \A q \in PageRequest(n) : q \in PageRequest(m)
BY DEF Flight, PageRequest

SessionsTyped ==
  /\ tokens \in Seq(Status) /\ Len(tokens) \in Nat \ {0}
  /\ {jar, leaving, access, expired} \subseteq 0 .. Len(tokens)
  /\ signedIn \in BOOLEAN /\ crossed \in BOOLEAN
  /\ flight \in [Refresher -> Flight(Len(tokens))]
  /\ req \in [Request -> PageRequest(Len(tokens))]
  /\ visits \in 0 .. MaxVisits /\ lost \in 0 .. MaxLost

LEMMA SameType == SessionsTyped => SessionsTypeOK
<1>1. tokens \in Seq(Status) =>
        (Len(tokens) \in Nat \ {0} <=> Len(tokens) >= 1)
  OBVIOUS
<1> QED
  BY <1>1 DEF SessionsTyped, SessionsTypeOK, Status, RefreshStep, Flight,
              PageRequest

LEMMA Rewritten ==
  ASSUME NEW s \in Seq(Status), NEW i, NEW v \in Status
  PROVE  /\ [s EXCEPT ![i] = v] \in Seq(Status)
         /\ Len([s EXCEPT ![i] = v]) = Len(s)
<1> DEFINE t == [s EXCEPT ![i] = v]
<1>1. DOMAIN t = 1 .. Len(s) /\ t = [j \in 1 .. Len(s) |-> t[j]]
  OBVIOUS
<1>2. \A j \in 1 .. Len(s) : t[j] \in Status
  OBVIOUS
<1> HIDE DEF t
<1>3. t \in Seq(Status) /\ Len(t) = Len(s)
  BY <1>1, <1>2
<1> QED BY <1>3 DEF t

LEMMA IdleRequest ==
  /\ [Unsent EXCEPT !.step = "idle"] \in PageRequest(2)
  /\ [Unsent EXCEPT !.step = "idle"].bearer = None
  /\ [Unsent EXCEPT !.step = "idle"].client = "http"
<1>1. /\ Unsent \in PageRequest(2)
      /\ Unsent.bearer = None /\ Unsent.client = "http"
  BY DEF Unsent, Sent, None, PageRequest
<1> QED BY <1>1 DEF PageRequest

LEMMA SessionsTypeStart == SessionsInit => SessionsTyped
<1> SUFFICES ASSUME SessionsInit PROVE SessionsTyped
  OBVIOUS
<1> USE SessionsAssumption DEF SessionsInit
<1>1. tokens \in Seq(Status) /\ Len(tokens) = 2
  BY DEF Status
<1>2. {jar, leaving, access, expired} \subseteq 0 .. 2
  BY DEF None
<1>3. flight \in [Refresher -> Flight(2)]
  BY DEF Landed, None, Flight, RefreshStep
<1>4. req \in [Request -> PageRequest(2)]
  BY IdleRequest
<1>5. signedIn \in BOOLEAN /\ crossed \in BOOLEAN
  OBVIOUS
<1>6. visits \in 0 .. MaxVisits /\ lost \in 0 .. MaxLost
  OBVIOUS
<1> QED
  BY <1>1, <1>2, <1>3, <1>4, <1>5, <1>6 DEF SessionsTyped

(* What the page does with its requests.                                      *)
LEMMA PageTyped ==
  ASSUME SessionsTyped, NEW r \in Request,
         Settle(r) \/ \E c \in Client : Ask(r, c)
  PROVE  SessionsTyped'
<1> DEFINE n == Len(tokens)
<1>1. n \in Nat \ {0} /\ access \in 0 .. n /\ jar \in 0 .. n
  BY DEF SessionsTyped
<1>2. flight \in [Refresher -> Flight(n)] /\ req \in [Request -> PageRequest(n)]
  BY DEF SessionsTyped
<1>3. /\ UNCHANGED <<tokens, jar, access, expired, signedIn, leaving, visits,
                     lost>>
      /\ crossed' \in BOOLEAN
  BY DEF SessionsTyped, Settle, Ask, Answered, Refused401
<1>4. ASSUME NEW c \in Client, Ask(r, c)
      PROVE  req' \in [Request -> PageRequest(n)] /\ flight' = flight
  <2>1. Sent(c, access, FALSE) \in PageRequest(n)
    BY <1>1 DEF Sent, PageRequest
  <2> QED BY <1>2, <1>4, <2>1 DEF Ask
<1>5. ASSUME Answered(r)
      PROVE  req' \in [Request -> PageRequest(n)] /\ flight' = flight
  BY <1>2, <1>5 DEF Answered, PageRequest
<1>6. ASSUME Refused401(r)
      PROVE  /\ req' \in [Request -> PageRequest(n)]
             /\ flight' \in [Refresher -> Flight(n)]
  <2>1. req' \in [Request -> PageRequest(n)]
    BY <1>2, <1>6 DEF Refused401, PageRequest
  <2>2. flight' = flight \/ flight' = Takeoff(req[r].client)
    BY <1>6 DEF Refused401
  <2>3. [step |-> "find", token |-> jar] \in Flight(n)
    BY <1>1 DEF Flight, RefreshStep
  <2> QED BY <1>2, <2>1, <2>2, <2>3 DEF Takeoff
<1> HIDE DEF n
<1>7. /\ req' \in [Request -> PageRequest(n)]
      /\ flight' \in [Refresher -> Flight(n)]
  BY <1>2, <1>4, <1>5, <1>6 DEF Settle
<1> QED BY <1>3, <1>7 DEF SessionsTyped, n

(* The server's statements, and the answer or the loss of a refresh.          *)
LEMMA RefreshTyped ==
  ASSUME SessionsTyped, NEW c \in Refresher, Progress(c) \/ Lose(c)
  PROVE  SessionsTyped'
<1> DEFINE n == Len(tokens)
           s == flight[c]
<1>1. n \in Nat \ {0} /\ access \in 0 .. n /\ jar \in 0 .. n
  BY DEF SessionsTyped
<1>2. flight \in [Refresher -> Flight(n)] /\ req \in [Request -> PageRequest(n)]
  BY DEF SessionsTyped
<1>3. s \in Flight(n) /\ s.token \in 0 .. n /\ tokens \in Seq(Status)
  BY <1>2 DEF SessionsTyped, Flight
<1>4. ASSUME Find(c) PROVE SessionsTyped'
  <2>1. s.token # None => tokens[s.token] \in Status
    BY <1>1, <1>3 DEF None
  <2>2. (IF s.token = None THEN "refused" ELSE FoundAs(tokens[s.token]))
          \in RefreshStep
    BY <2>1 DEF FoundAs, RefreshStep, Status
  <2>3. flight' \in [Refresher -> Flight(n)]
    BY <1>2, <1>4, <2>2 DEF Find, Flight
  <2> QED BY <1>4, <2>3 DEF SessionsTyped, Find, serverVars
<1>5. ASSUME Alarm(c) PROVE SessionsTyped'
  <2>1. tokens' \in Seq(Status) /\ Len(tokens') = n
    BY <1>1, <1>3, <1>5 DEF Alarm, Status
  <2>2. flight' \in [Refresher -> Flight(n)]
    BY <1>2, <1>5 DEF Alarm, Flight, RefreshStep
  <2> QED BY <1>5, <2>1, <2>2 DEF SessionsTyped, Alarm, serverVars
<1>6. ASSUME Revoke(c) PROVE SessionsTyped'
  <2>1. tokens' \in Seq(Status) /\ Len(tokens') = n
    BY <1>1, <1>3, <1>6, Rewritten DEF Revoke, Status
  <2>2. flight' \in [Refresher -> Flight(n)]
    BY <1>2, <1>6 DEF Revoke, Flight, RefreshStep
  <2> QED BY <1>6, <2>1, <2>2 DEF SessionsTyped, Revoke, serverVars
<1>7. ASSUME Mint(c) PROVE SessionsTyped'
  <2>1. tokens' \in Seq(Status) /\ Len(tokens') = n + 1
    BY <1>1, <1>3, <1>7 DEF Mint, Status
  <2>2. [step |-> "answer", token |-> n + 1] \in Flight(n + 1)
    BY <1>1 DEF Flight, RefreshStep
  <2>3. \A f \in Flight(n) : f \in Flight(n + 1)
    BY <1>1, Places
  <2>4. flight' \in [Refresher -> Flight(n + 1)]
    BY <1>2, <1>7, <2>2, <2>3 DEF Mint
  <2>5. req' \in [Request -> PageRequest(n + 1)]
    BY <1>1, <1>2, <1>7, Places DEF Mint, serverVars
  <2>6. {jar, leaving, access, expired}' \subseteq 0 .. n + 1
    BY <1>1, <1>7 DEF SessionsTyped, Mint, serverVars
  <2> QED
    BY <1>1, <1>7, <2>1, <2>4, <2>5, <2>6 DEF SessionsTyped, Mint, serverVars
<1>8. Landed \in Flight(n) /\ None \in 0 .. n
  BY <1>1 DEF Landed, None, Flight, RefreshStep
<1>9. ASSUME Refreshed(c) PROVE SessionsTyped'
  <2>1. flight' \in [Refresher -> Flight(n)]
    BY <1>2, <1>8, <1>9 DEF Refreshed
  <2>2. \A r \in WaitingOn(c) :
          c \in Client \cup {"http"}
    BY <1>2 DEF WaitingOn, PageRequest
  <2>3. \A r \in WaitingOn(c) : Sent(c, s.token, TRUE) \in PageRequest(n)
    BY <1>3, <2>2 DEF Sent, PageRequest
  <2>4. req' \in [Request -> PageRequest(n)]
    BY <1>2, <1>9, <2>3 DEF Refreshed
  <2>5. {jar, leaving, access, expired}' \subseteq 0 .. n
    BY <1>3, <1>9 DEF SessionsTyped, Refreshed, SetRefreshCookie
  <2>6. signedIn' \in BOOLEAN
    BY <1>9 DEF SessionsTyped, Refreshed
  <2> QED BY <1>9, <2>1, <2>4, <2>5, <2>6 DEF SessionsTyped, Refreshed
<1>10. ASSUME SignsOut(c)
       PROVE  /\ flight' \in [Refresher -> Flight(n)]
              /\ req' \in [Request -> PageRequest(n)]
              /\ access' \in 0 .. n /\ signedIn' \in BOOLEAN
  <2>1. flight' \in [Refresher -> Flight(n)] /\ access' \in 0 .. n
    BY <1>1, <1>2, <1>8, <1>10 DEF SignsOut
  <2>2. \A r \in Request : [req[r] EXCEPT !.step = "failed"] \in PageRequest(n)
    BY <1>2 DEF PageRequest
  <2>3. req' \in [Request -> PageRequest(n)]
    BY <1>2, <1>10, <2>2 DEF SignsOut
  <2>4. c \in {"http", "api", "mount"}
    BY SessionsAssumption DEF Refresher
  <2>5. signedIn' \in BOOLEAN
    BY <1>10, <2>4 DEF SignsOut, SessionsTyped
  <2> QED BY <2>1, <2>3, <2>5
<1>11. ASSUME RefreshFailed(c) PROVE SessionsTyped'
  <2>1. SignsOut(c)
    BY <1>11 DEF RefreshFailed
  <2> QED BY <1>10, <1>11, <2>1 DEF SessionsTyped, RefreshFailed
<1>12. ASSUME Lose(c) PROVE SessionsTyped'
  <2>1. SignsOut(c) /\ lost' \in 0 .. MaxLost
    BY <1>12, SessionsAssumption DEF Lose, SessionsTyped
  <2> QED BY <1>10, <1>12, <2>1 DEF SessionsTyped, Lose
<1> QED
  BY <1>4, <1>5, <1>6, <1>7, <1>9, <1>11, <1>12 DEF Progress

LEMMA BrowserTyped ==
  ASSUME SessionsTyped,
         Mount \/ Login \/ Logout \/ LoggedOut \/ Expire \/ Lapse
  PROVE  SessionsTyped'
<1> DEFINE n == Len(tokens)
<1>1. /\ n \in Nat \ {0} /\ tokens \in Seq(Status)
      /\ access \in 0 .. n /\ jar \in 0 .. n /\ leaving \in 0 .. n
  BY DEF SessionsTyped
<1>2. flight \in [Refresher -> Flight(n)] /\ req \in [Request -> PageRequest(n)]
  BY DEF SessionsTyped
<1>3. None \in 0 .. n
  BY <1>1 DEF None
<1>4. ASSUME Mount PROVE SessionsTyped'
  <2>1. [step |-> "find", token |-> jar] \in Flight(n)
    BY <1>1 DEF Flight, RefreshStep
  <2>2. flight' \in [Refresher -> Flight(n)]
    BY <1>2, <1>4, <2>1 DEF Mount, Takeoff
  <2>3. visits' \in 0 .. MaxVisits /\ crossed' \in BOOLEAN
    BY <1>4, SessionsAssumption DEF SessionsTyped, Mount, Crosses
  <2> QED BY <1>4, <2>2, <2>3 DEF SessionsTyped, Mount
<1>5. ASSUME Login PROVE SessionsTyped'
  <2>1. tokens' \in Seq(Status) /\ Len(tokens') = n + 1
    BY <1>1, <1>5 DEF Login, Status
  <2>2. flight' \in [Refresher -> Flight(n + 1)]
    BY <1>1, <1>2, <1>5, Places DEF Login
  <2>3. req' \in [Request -> PageRequest(n + 1)]
    BY <1>1, <1>2, <1>5, Places DEF Login
  <2>4. {jar, leaving, access, expired}' \subseteq 0 .. n + 1
    BY <1>1, <1>5 DEF SessionsTyped, Login
  <2>5. /\ visits' \in 0 .. MaxVisits /\ crossed' \in BOOLEAN
        /\ signedIn' \in BOOLEAN
    BY <1>5, SessionsAssumption DEF SessionsTyped, Login, Crosses
  <2> QED
    BY <1>1, <1>5, <2>1, <2>2, <2>3, <2>4, <2>5 DEF SessionsTyped, Login
<1>6. ASSUME Logout PROVE SessionsTyped'
  <2>1. crossed' \in BOOLEAN /\ signedIn' \in BOOLEAN
    BY <1>6 DEF Logout, Crosses, SessionsTyped
  <2> QED BY <1>1, <1>3, <1>6, <2>1 DEF SessionsTyped, Logout
<1>7. ASSUME LoggedOut PROVE SessionsTyped'
  <2>1. tokens' \in Seq(Status) /\ Len(tokens') = n
    BY <1>1, <1>7, Rewritten DEF LoggedOut, Status
  <2> QED BY <1>1, <1>3, <1>7, <2>1 DEF SessionsTyped, LoggedOut
<1>8. ASSUME Expire PROVE SessionsTyped'
  BY <1>1, <1>8 DEF SessionsTyped, Expire
<1>9. ASSUME Lapse PROVE SessionsTyped'
  <2>1. tokens' \in Seq(Status) /\ Len(tokens') = n /\ expired' \in 0 .. n
    BY <1>1, <1>9, Rewritten DEF Lapse, Status
  <2> QED BY <1>9, <2>1 DEF SessionsTyped, Lapse
<1> QED BY <1>4, <1>5, <1>6, <1>7, <1>8, <1>9

LEMMA SessionsTypeStep ==
  SessionsTyped /\ [SessionsNext]_sessionVars => SessionsTyped'
<1>1. SessionsTyped /\ UNCHANGED sessionVars => SessionsTyped'
  BY DEF SessionsTyped, sessionVars
<1> QED BY <1>1, PageTyped, RefreshTyped, BrowserTyped DEF SessionsNext

------------------------------------------------------------------------------
(* Who holds which token.  One refresh is in the air at a time, with the      *)
(* token in the cookie, until it is found that there is nothing to refresh    *)
(* (Dead): then a page load and a refused request may both be told so.        *)
Dead == jar = None \/ tokens[jar] = "LAPSED"
Spent == jar # None /\ tokens[jar] = "REVOKED"
Live(t) == t \in DOMAIN tokens /\ tokens[t] = "ACTIVE"

Fits(f) ==
  /\ f.step = "none" => f = Landed
  /\ f.step = "find" => f.token = jar /\ (Dead \/ Live(jar))
  /\ f.step # "alarm"
  /\ f.step = "revoke" => f.token = jar /\ Live(jar)
  /\ f.step = "mint" => f.token = jar /\ Spent
  /\ f.step = "answer" => f.token # Other /\ Live(f.token) /\ Spent
  /\ f.step = "refused" => Dead

OneHolder ==
  /\ \A c \in Refresher : Fits(flight[c])
  /\ \A c, d \in Refresher :
       flight[c] # Landed /\ flight[d] # Landed /\ c # d => Dead
  /\ \A c \in Refresher : flight[c] # Landed => leaving = None
  /\ Quiet => Dead \/ Live(jar)
PageKnows ==
  /\ leaving # None => ~signedIn /\ access = None
  /\ flight["mount"] # Landed => access = None
  /\ signedIn => jar # None
  /\ \A r \in Request :
       access = None /\ leaving = None /\ ~Dead => req[r].bearer = None
Untouched == tokens[Other] # "REVOKED" /\ jar # Other /\ leaving # Other

Serene == OneHolder /\ PageKnows /\ Untouched
SessionInv == SessionsTyped /\ (Clean => Serene)

(* What the cookie says does not change while the tokens and the cookie stay. *)
LEMMA SameFlight ==
  ASSUME UNCHANGED <<tokens, jar>>
  PROVE  /\ Dead' = Dead /\ Spent' = Spent
         /\ \A t : Live(t)' = Live(t)
         /\ \A f : Fits(f)' = Fits(f)
BY DEF Dead, Spent, Live, Fits

(* A session without trouble had none before.                                 *)
LEMMA CleanBefore ==
  SessionsTyped /\ [SessionsNext]_sessionVars /\ Clean' => Clean
<1> SUFFICES ASSUME SessionsTyped, [SessionsNext]_sessionVars, Clean'
             PROVE  Clean
  OBVIOUS
<1>1. lost \in Nat /\ lost' = 0 /\ ~crossed'
  BY SessionsAssumption DEF SessionsTyped, Clean
<1>2. lost' = lost \/ lost' = lost + 1
  <2>1. ASSUME NEW r \in Request, Settle(r) \/ \E c \in Client : Ask(r, c)
        PROVE  lost' = lost
    BY <2>1 DEF Settle, Ask, Answered, Refused401
  <2>2. ASSUME NEW c \in Refresher, Progress(c) \/ Lose(c)
        PROVE  lost' = lost \/ lost' = lost + 1
    BY <2>2 DEF Progress, Find, Alarm, Revoke, Mint, Refreshed,
                RefreshFailed, Lose, serverVars
  <2>3. ASSUME Mount \/ Login \/ Logout \/ LoggedOut \/ Expire \/ Lapse
        PROVE  lost' = lost
    BY <2>3 DEF Mount, Login, Logout, LoggedOut, Expire, Lapse
  <2> QED BY <2>1, <2>2, <2>3 DEF SessionsNext, sessionVars
<1>3. Crosses => ~crossed
  BY <1>1, Zenon DEF Crosses
<1>4. UNCHANGED crossed => ~crossed
  BY <1>1
<1>5. ASSUME NEW r, Settle(r) \/ \E c \in Client : Ask(r, c)
      PROVE  ~crossed
  <2>1. Refused401(r) => ~crossed
    BY <1>1, Zenon DEF Refused401
  <2> QED BY <1>4, <1>5, <2>1, Zenon DEF Settle, Ask, Answered
<1>6. ASSUME NEW c, Progress(c) \/ Lose(c) PROVE UNCHANGED crossed
  BY <1>6 DEF Progress, Find, Alarm, Revoke, Mint, Refreshed, RefreshFailed,
              Lose, serverVars
<1>7. Mount \/ Login \/ Logout => Crosses
  BY DEF Mount, Login, Logout
<1>8. LoggedOut \/ Expire \/ Lapse \/ UNCHANGED sessionVars =>
        UNCHANGED crossed
  BY DEF LoggedOut, Expire, Lapse, sessionVars
<1>9. ~crossed
  BY <1>3, <1>4, <1>5, <1>6, <1>7, <1>8 DEF SessionsNext
<1> QED BY <1>1, <1>2, <1>9 DEF Clean

(* What is new in the air of a session without trouble found nothing there.   *)
LEMMA NothingCrossed == Crosses /\ Clean' => Quiet
BY Zenon DEF Crosses, Clean

LEMMA NoneLost == \A c : Clean' => ~Lose(c) \/ ~SessionsTyped
BY SessionsAssumption DEF Clean, Lose, SessionsTyped

LEMMA SereneStart == SessionsInit => Serene
<1> SUFFICES ASSUME SessionsInit PROVE Serene
  OBVIOUS
<1> USE DEF SessionsInit
<1>1. /\ tokens = <<"ACTIVE", "ACTIVE">> /\ jar = 2 /\ leaving = None
      /\ access \in {None, 2}
  OBVIOUS
<1>2. ~Dead /\ Live(jar)
  BY <1>1 DEF Dead, Live, None
<1>3. \A c \in Refresher : flight[c] = Landed
  OBVIOUS
<1>4. Landed.step = "none"
  BY DEF Landed
<1>5. OneHolder
  BY <1>1, <1>2, <1>3, <1>4 DEF OneHolder, Fits
<1>6. \A r \in Request : req[r].bearer = None
  BY IdleRequest
<1>7. "mount" \in Refresher
  BY DEF Refresher
<1>8. PageKnows
  BY <1>1, <1>3, <1>6, <1>7 DEF PageKnows, None
<1>9. Untouched
  BY <1>1 DEF Untouched, Other, None
<1> QED BY <1>5, <1>8, <1>9 DEF Serene

LEMMA PageSerene ==
  ASSUME Client \subseteq {"http"}, SessionsTyped, Serene, Clean',
         NEW r \in Request, Settle(r) \/ \E c \in Client : Ask(r, c)
  PROVE  Serene'
<1>1. UNCHANGED <<tokens, jar, access, expired, signedIn, leaving>>
  BY DEF Settle, Ask, Answered, Refused401
<1>2. /\ Dead' = Dead /\ Live(jar)' = Live(jar)
      /\ \A f : Fits(f)' = Fits(f)
  BY <1>1, SameFlight
<1>3. Untouched'
  BY <1>1 DEF Serene, Untouched
<1>4. req \in [Request -> PageRequest(Len(tokens))]
  BY DEF SessionsTyped
<1>5. ASSUME NEW c \in Client, Ask(r, c) PROVE Serene'
  <2>1. flight' = flight /\ req' = [req EXCEPT ![r] = Sent(c, access, FALSE)]
    BY <1>5 DEF Ask
  <2>2. OneHolder'
    BY <1>1, <1>2, <2>1 DEF Serene, OneHolder, Quiet, InFlight
  <2>3. Sent(c, access, FALSE).bearer = access
    BY DEF Sent
  <2>4. PageKnows'
    BY <1>1, <1>2, <1>4, <2>1, <2>3 DEF Serene, PageKnows
  <2> QED BY <1>3, <2>2, <2>4 DEF Serene
<1>6. ASSUME Answered(r) PROVE Serene'
  <2>1. flight' = flight /\ req' = [req EXCEPT ![r].step = "done"]
    BY <1>6 DEF Answered
  <2>2. OneHolder'
    BY <1>1, <1>2, <2>1 DEF Serene, OneHolder, Quiet, InFlight
  <2>3. \A q \in Request : req'[q].bearer = req[q].bearer
    BY <1>4, <2>1 DEF PageRequest
  <2>4. PageKnows'
    BY <1>1, <1>2, <2>1, <2>3 DEF Serene, PageKnows
  <2> QED BY <1>3, <2>2, <2>4 DEF Serene
<1>7. ASSUME Refused401(r) PROVE Serene'
  <2>1. \A q \in Request : req'[q].bearer = req[q].bearer
    BY <1>4, <1>7 DEF Refused401, PageRequest
  <2>2. "mount" \in Refresher /\ req[r].client = "http"
    BY <1>4 DEF Refresher, PageRequest
  <2>3. CASE flight' = flight
    <3>1. OneHolder'
      BY <1>1, <1>2, <2>3 DEF Serene, OneHolder, Quiet, InFlight
    <3>2. PageKnows'
      BY <1>1, <1>2, <2>1, <2>3 DEF Serene, PageKnows
    <3> QED BY <1>3, <3>1, <3>2 DEF Serene
  <2>4. CASE Retries(req[r]) /\ flight["http"] = Landed
             /\ flight' = Takeoff("http")
    <3>1. leaving = None
      BY <1>7, <2>4 DEF Refused401, Clean
    <3>2. req[r].bearer # None
      BY <2>2, <2>4 DEF Retries
    <3>3. flight' = [flight EXCEPT !["http"] = [step |-> "find", token |-> jar]]
      BY <2>4 DEF Takeoff
    <3>4. flight["mount"] # Landed => Dead
      BY <3>1, <3>2 DEF Serene, PageKnows
    <3>5. \A c \in Refresher : c # "http" => c = "mount"
      BY DEF Refresher
    <3>6. Dead \/ Live(jar)
      BY <2>4, <3>1, <3>4, <3>5 DEF Serene, OneHolder, Quiet, InFlight
    <3>7. ASSUME "http" \in Refresher PROVE OneHolder'
      <4>1. \A c \in Refresher :
              flight'[c] = IF c = "http" THEN [step |-> "find", token |-> jar]
                           ELSE flight[c]
        BY <3>3 DEF SessionsTyped
      <4>2. \A c \in Refresher : Fits(flight'[c])
        BY <3>6, <4>1 DEF Serene, OneHolder, Fits, Landed
      <4>3. [step |-> "find", token |-> jar] # Landed
        BY DEF Landed
      <4>4. ~Quiet'
        BY <3>7, <4>1, <4>3 DEF Quiet, InFlight
      <4>5. \A c, d \in Refresher :
              flight'[c] # Landed /\ flight'[d] # Landed /\ c # d => Dead
        BY <3>4, <3>5, <4>1
      <4> QED
        BY <1>1, <1>2, <3>1, <4>2, <4>4, <4>5 DEF OneHolder
    <3>8. ASSUME "http" \notin Refresher PROVE OneHolder'
      <4>1. flight' = flight
        BY <3>3, <3>8 DEF SessionsTyped
      <4> QED BY <1>1, <1>2, <4>1 DEF Serene, OneHolder, Quiet, InFlight
    <3>9. flight'["mount"] = flight["mount"]
      BY <2>2, <3>3 DEF SessionsTyped
    <3>10. PageKnows'
      BY <1>1, <1>2, <2>1, <3>9 DEF Serene, PageKnows
    <3> QED BY <1>3, <3>7, <3>8, <3>10 DEF Serene
  <2> QED BY <1>7, <2>2, <2>3, <2>4 DEF Refused401
<1> QED BY <1>5, <1>6, <1>7 DEF Settle

(* A refresh in the air that is not Dead is the only one.                     *)
LEMMA ServerSerene ==
  ASSUME SessionsTyped, Serene, NEW c \in Refresher,
         Find(c) \/ Alarm(c) \/ Revoke(c) \/ Mint(c)
  PROVE  Serene'
<1> DEFINE s == flight[c]
           n == Len(tokens)
<1>1. /\ UNCHANGED <<jar, access, expired, signedIn, leaving, req>>
      /\ s.step # "none"
  BY DEF Find, Alarm, Revoke, Mint, serverVars
<1>2. Fits(s) /\ s # Landed /\ leaving = None /\ ~Quiet
  BY <1>1 DEF Serene, OneHolder, Landed, Quiet, InFlight
<1>3. /\ flight \in [Refresher -> Flight(n)] /\ tokens \in Seq(Status)
      /\ n \in Nat \ {0} /\ jar \in 0 .. n /\ DOMAIN tokens = 1 .. n
  BY DEF SessionsTyped
<1>4. ASSUME ~Dead, NEW d \in Refresher, d # c PROVE flight[d] = Landed
  BY <1>2, <1>4 DEF Serene, OneHolder
<1>5. jar # Other /\ tokens[Other] # "REVOKED" /\ Other \in 1 .. n
  BY <1>3 DEF Serene, Untouched, Other
<1>6. CASE Find(c)
  <2> DEFINE step == IF s.token = None THEN "refused"
                     ELSE FoundAs(tokens[s.token])
  <2>1. flight' = [flight EXCEPT ![c].step = step] /\ tokens' = tokens
    BY <1>6 DEF Find
  <2>2. s.step = "find" /\ s.token = jar /\ (Dead \/ Live(jar))
    BY <1>2, <1>6 DEF Find, Fits
  <2>3. \/ step = "refused" /\ Dead
        \/ step = "revoke" /\ Live(jar)
    <3>1. CASE jar = None
      BY <2>2, <3>1 DEF Dead
    <3>2. CASE jar # None /\ tokens[jar] = "LAPSED"
      BY <2>2, <3>2 DEF FoundAs, Dead
    <3>3. CASE jar # None /\ tokens[jar] = "ACTIVE"
      BY <1>3, <2>2, <3>3 DEF FoundAs, Live, None
    <3> QED BY <2>2, <3>1, <3>2, <3>3 DEF Dead, Live
  <2> HIDE DEF step
  <2>4. /\ Dead' = Dead /\ Live(jar)' = Live(jar)
        /\ \A f : Fits(f)' = Fits(f)
    BY <1>1, <2>1, SameFlight
  <2>5. /\ flight'[c].step = step /\ flight'[c].token = jar
        /\ \A d \in Refresher : d # c => flight'[d] = flight[d]
    BY <1>3, <2>1, <2>2 DEF Flight
  <2>6. Fits(flight'[c]) /\ flight'[c] # Landed
    BY <2>3, <2>5 DEF Fits, Landed
  <2>7. \A d \in Refresher : flight'[d] # Landed <=> flight[d] # Landed
    BY <1>2, <2>5, <2>6
  <2>8. \A d \in Refresher : Fits(flight'[d])
    BY <2>5, <2>6 DEF Serene, OneHolder
  <2>9. ~Quiet'
    BY <2>6 DEF Quiet, InFlight
  <2>10. OneHolder'
    BY <1>1, <2>4, <2>7, <2>8, <2>9 DEF Serene, OneHolder
  <2>11. "mount" \in Refresher
    BY DEF Refresher
  <2>12. PageKnows'
    BY <1>1, <2>4, <2>7, <2>11 DEF Serene, PageKnows
  <2> QED BY <1>1, <2>1, <2>10, <2>12 DEF Serene, Untouched
<1>7. CASE Alarm(c)
  BY <1>2, <1>7 DEF Alarm, Fits
<1>8. CASE Revoke(c)
  <2>1. /\ tokens' = [tokens EXCEPT ![jar] = "REVOKED"] /\ Live(jar)
        /\ flight' = [flight EXCEPT ![c].step = "mint"] /\ s.token = jar
    BY <1>2, <1>8 DEF Revoke, Fits
  <2>2. jar # None /\ ~Dead
    BY <1>3, <2>1 DEF Live, Dead, None
  <2>3. tokens'[jar] = "REVOKED" /\ tokens'[Other] # "REVOKED"
    BY <1>3, <1>5, <2>1 DEF Live
  <2>4. Spent' /\ ~Dead'
    BY <1>1, <2>2, <2>3 DEF Spent, Dead
  <2>5. /\ flight'[c].step = "mint" /\ flight'[c].token = jar
        /\ \A d \in Refresher : d # c => flight'[d] = Landed
    BY <1>3, <1>4, <2>1, <2>2 DEF Flight
  <2>6. flight'[c] # Landed
    BY <2>5 DEF Landed
  <2>7. (\A d \in Refresher : Fits(flight[d]))'
    BY <1>1, <2>4, <2>5 DEF Fits, Landed
  <2>8. ~Quiet'
    BY <2>6 DEF Quiet, InFlight
  <2>9. OneHolder'
    BY <1>1, <1>2, <2>5, <2>6, <2>7, <2>8 DEF OneHolder
  <2>10. "mount" \in Refresher
    BY DEF Refresher
  <2>11. PageKnows'
    BY <1>1, <1>2, <2>2, <2>5, <2>10 DEF Serene, PageKnows
  <2> QED BY <1>1, <2>3, <2>9, <2>11 DEF Serene, Untouched
<1>9. CASE Mint(c)
  <2>1. /\ tokens' = Append(tokens, "ACTIVE") /\ Spent
        /\ flight' = [flight EXCEPT ![c] =
                        [step |-> "answer", token |-> n + 1]]
    BY <1>2, <1>9 DEF Mint, Fits
  <2>2. jar # None /\ ~Dead /\ jar \in 1 .. n
    BY <1>3, <2>1 DEF Spent, Dead, None
  <2>3. /\ DOMAIN tokens' = 1 .. n + 1 /\ tokens'[n + 1] = "ACTIVE"
        /\ \A t \in 1 .. n : tokens'[t] = tokens[t]
    BY <1>3, <2>1
  <2>4. /\ flight'[c] = [step |-> "answer", token |-> n + 1]
        /\ \A d \in Refresher : d # c => flight'[d] = Landed
    BY <1>3, <1>4, <2>1, <2>2
  <2>5. Spent' /\ ~Dead' /\ Live(flight[c].token)'
    BY <1>1, <1>3, <2>1, <2>2, <2>3, <2>4 DEF Spent, Dead, Live
  <2>6. flight'[c] # Landed /\ n + 1 # Other
    BY <1>3, <2>4 DEF Landed, Other
  <2>7. (\A d \in Refresher : Fits(flight[d]))'
    BY <1>1, <1>3, <2>4, <2>5, <2>6 DEF Fits, Landed
  <2>8. ~Quiet'
    BY <2>6 DEF Quiet, InFlight
  <2>9. OneHolder'
    BY <1>1, <1>2, <2>4, <2>6, <2>7, <2>8 DEF OneHolder
  <2>10. "mount" \in Refresher
    BY DEF Refresher
  <2>11. PageKnows'
    BY <1>1, <1>2, <2>2, <2>4, <2>10 DEF Serene, PageKnows
  <2> QED BY <1>1, <1>5, <2>3, <2>9, <2>11 DEF Serene, Untouched
<1> QED BY <1>6, <1>7, <1>8, <1>9

LEMMA AnswerSerene ==
  ASSUME SessionsTyped, Serene, NEW c \in Refresher,
         Client \subseteq {"http"}, Refreshed(c) \/ RefreshFailed(c)
  PROVE  Serene'
<1> DEFINE s == flight[c]
           n == Len(tokens)
<1>1. UNCHANGED <<tokens, leaving>> /\ s.step # "none"
  BY DEF Refreshed, RefreshFailed
<1>2. Fits(s) /\ s # Landed /\ leaving = None
  BY <1>1 DEF Serene, OneHolder, Landed
<1>3. /\ flight \in [Refresher -> Flight(n)] /\ n \in Nat \ {0}
      /\ req \in [Request -> PageRequest(n)]
      /\ DOMAIN tokens = 1 .. n
  BY DEF SessionsTyped
<1>4. flight' = [flight EXCEPT ![c] = Landed]
  BY DEF Refreshed, RefreshFailed, SignsOut
<1>5. /\ flight'[c] = Landed
      /\ \A d \in Refresher : d # c => flight'[d] = flight[d]
  BY <1>3, <1>4
<1>6. Landed.step = "none" /\ "mount" \in Refresher
  BY DEF Landed, Refresher
<1>7. \A f : Fits(f) /\ f = Landed => Fits(f)'
  BY <1>6 DEF Fits
<1>8. CASE Refreshed(c)
  <2>1. /\ jar' = s.token /\ access' = s.token
        /\ signedIn' = (signedIn \/ c = "mount")
        /\ s.token # Other /\ Live(s.token) /\ Spent
    BY <1>2, <1>8 DEF Refreshed, SetRefreshCookie, Fits
  <2>2. ~Dead /\ s.token # None
    BY <1>3, <2>1 DEF Spent, Dead, Live, None
  <2>3. \A d \in Refresher : flight'[d] = Landed
    BY <1>2, <1>5, <2>2 DEF Serene, OneHolder
  <2>4. Live(jar)'
    BY <1>1, <2>1 DEF Live
  <2>5. OneHolder'
    BY <1>6, <2>3, <2>4 DEF OneHolder, Fits
  <2>6. PageKnows'
    BY <1>1, <1>2, <1>6, <2>1, <2>2, <2>3 DEF PageKnows
  <2> QED BY <1>1, <2>1, <2>5, <2>6 DEF Serene, Untouched
<1>9. CASE RefreshFailed(c)
  <2>1. Dead /\ UNCHANGED jar /\ SignsOut(c)
    BY <1>2, <1>9 DEF RefreshFailed, Fits
  <2>2. /\ Dead' = Dead /\ Live(jar)' = Live(jar)
        /\ \A f : Fits(f)' = Fits(f)
    BY <1>1, <2>1, SameFlight
  <2>3. Fits(Landed)
    BY <1>6 DEF Fits
  <2>4. OneHolder'
    BY <1>1, <1>2, <1>5, <2>1, <2>2, <2>3 DEF Serene, OneHolder
  <2>5. c \in {"http", "mount"}
    BY DEF Refresher
  <2>6. access' = None
    BY <1>2, <2>1, <2>5 DEF SignsOut, Serene, PageKnows
  <2>7. ~signedIn'
    <3>1. CASE c = "http"
      BY <2>1, <3>1 DEF SignsOut
    <3>2. CASE c = "mount"
      BY <1>2, <2>1, <3>2 DEF SignsOut, Serene, PageKnows
    <3> QED BY <2>5, <3>1, <3>2
  <2>8. PageKnows'
    BY <2>1, <2>2, <2>6, <2>7 DEF PageKnows
  <2> QED BY <1>1, <2>1, <2>4, <2>8 DEF Serene, Untouched
<1> QED BY <1>8, <1>9

LEMMA BrowserSerene ==
  ASSUME SessionsTyped, Serene, Clean',
         Mount \/ Login \/ Logout \/ LoggedOut \/ Expire \/ Lapse
  PROVE  Serene'
<1> DEFINE n == Len(tokens)
<1>1. /\ flight \in [Refresher -> Flight(n)] /\ n \in Nat \ {0}
      /\ tokens \in Seq(Status) /\ DOMAIN tokens = 1 .. n
      /\ jar \in 0 .. n /\ leaving \in 0 .. n
  BY DEF SessionsTyped
<1>2. /\ jar # Other /\ leaving # Other /\ tokens[Other] # "REVOKED"
      /\ Other \in 1 .. n
  BY <1>1 DEF Serene, Untouched, Other
<1>3. "mount" \in Refresher
  BY DEF Refresher
<1>4. leaving # None => \A c \in Refresher : flight[c] = Landed
  BY DEF Serene, OneHolder
<1>5. Quiet => /\ leaving = None /\ (Dead \/ Live(jar))
               /\ \A c \in Refresher : flight[c] = Landed
  BY DEF Serene, OneHolder, Quiet, InFlight
<1>6. Landed.step = "none"
  BY DEF Landed
<1>7. CASE Mount
  <2>1. /\ Quiet /\ access = None
        /\ flight' = [flight EXCEPT !["mount"] =
                        [step |-> "find", token |-> jar]]
        /\ UNCHANGED <<tokens, jar, access, signedIn, leaving, req>>
    BY <1>7, NothingCrossed DEF Mount, Takeoff
  <2>2. /\ Dead' = Dead /\ Live(jar)' = Live(jar)
        /\ \A f : Fits(f)' = Fits(f)
    BY <2>1, SameFlight
  <2>3. \A c \in Refresher :
          flight'[c] = IF c = "mount" THEN [step |-> "find", token |-> jar]
                                      ELSE Landed
    BY <1>1, <1>5, <2>1
  <2>4. [step |-> "find", token |-> jar] # Landed
    BY DEF Landed
  <2>5. \A c \in Refresher : Fits(flight'[c])
    BY <1>5, <1>6, <2>1, <2>3 DEF Fits
  <2>6. ~Quiet'
    BY <1>3, <2>3, <2>4 DEF Quiet, InFlight
  <2>7. OneHolder'
    BY <1>5, <2>1, <2>2, <2>3, <2>5, <2>6 DEF OneHolder
  <2>8. PageKnows'
    BY <2>1, <2>2 DEF Serene, PageKnows
  <2> QED BY <2>1, <2>7, <2>8 DEF Serene, Untouched
<1>8. CASE Login
  <2>1. /\ Quiet /\ jar' = n + 1 /\ access' = n + 1
        /\ tokens' = Append(tokens, "ACTIVE")
        /\ UNCHANGED <<flight, leaving, req>>
    BY <1>8, NothingCrossed DEF Login
  <2>2. /\ DOMAIN tokens' = 1 .. n + 1 /\ tokens'[n + 1] = "ACTIVE"
        /\ \A t \in 1 .. n : tokens'[t] = tokens[t]
    BY <1>1, <2>1
  <2>3. Live(jar)' /\ jar' # None /\ access' # None /\ jar' # Other
    BY <1>1, <2>1, <2>2 DEF Live, None, Other
  <2>4. OneHolder'
    BY <1>5, <1>6, <2>1, <2>3 DEF OneHolder, Fits
  <2>5. PageKnows'
    BY <1>3, <1>5, <2>1, <2>3 DEF PageKnows
  <2> QED BY <1>2, <2>1, <2>2, <2>3, <2>4, <2>5 DEF Serene, Untouched
<1>9. CASE Logout
  <2>1. /\ Quiet /\ leaving' = jar /\ jar # None
        /\ access' = None /\ ~signedIn'
        /\ UNCHANGED <<tokens, jar, flight, req>>
    BY <1>9, NothingCrossed DEF Logout
  <2>2. OneHolder'
    BY <1>5, <1>6, <2>1 DEF OneHolder, Fits, Quiet
  <2>3. PageKnows'
    BY <2>1 DEF PageKnows
  <2> QED BY <1>2, <2>1, <2>2, <2>3 DEF Serene, Untouched
<1>10. CASE LoggedOut
  <2>1. /\ leaving # None /\ jar' = None /\ access' = None /\ leaving' = None
        /\ tokens' = [tokens EXCEPT ![leaving] = "REVOKED"]
        /\ UNCHANGED <<signedIn, flight, req>>
    BY <1>10 DEF LoggedOut
  <2>2. tokens'[Other] # "REVOKED"
    BY <1>1, <1>2, <2>1
  <2>3. Dead' /\ ~signedIn
    BY <2>1 DEF Dead, Serene, PageKnows
  <2>4. OneHolder'
    BY <1>4, <1>6, <2>1, <2>3 DEF OneHolder, Fits
  <2>5. PageKnows'
    BY <2>1, <2>3 DEF PageKnows
  <2> QED BY <2>1, <2>2, <2>4, <2>5 DEF Serene, Untouched, None, Other
<1>11. CASE Expire
  <2>1. UNCHANGED <<tokens, jar, access, signedIn, flight, leaving, req>>
    BY <1>11 DEF Expire
  <2>2. /\ Dead' = Dead /\ Live(jar)' = Live(jar)
        /\ \A f : Fits(f)' = Fits(f)
    BY <2>1, SameFlight
  <2> QED
    BY <2>1, <2>2 DEF Serene, OneHolder, Quiet, InFlight, PageKnows, Untouched
<1>12. CASE Lapse
  <2>1. /\ Quiet /\ jar # None
        /\ tokens' = [tokens EXCEPT ![jar] = "LAPSED"]
        /\ UNCHANGED <<jar, access, signedIn, flight, leaving, req>>
    BY <1>12 DEF Lapse
  <2>2. tokens'[Other] # "REVOKED" /\ tokens'[jar] = "LAPSED"
    BY <1>1, <1>2, <2>1 DEF None
  <2>3. Dead'
    BY <2>1, <2>2 DEF Dead
  <2>4. OneHolder'
    BY <1>5, <1>6, <2>1, <2>3 DEF OneHolder, Fits
  <2>5. PageKnows'
    BY <2>1, <2>3 DEF Serene, PageKnows
  <2> QED BY <1>2, <2>1, <2>2, <2>4, <2>5 DEF Serene, Untouched
<1> QED BY <1>7, <1>8, <1>9, <1>10, <1>11, <1>12

LEMMA SessionStep ==
  ASSUME Client \subseteq {"http"}
  PROVE  SessionInv /\ [SessionsNext]_sessionVars => SessionInv'
<1> SUFFICES ASSUME SessionInv, [SessionsNext]_sessionVars
             PROVE  SessionInv'
  OBVIOUS
<1>1. SessionsTyped /\ SessionsTyped'
  BY SessionsTypeStep DEF SessionInv
<1>2. ASSUME Clean' PROVE Serene'
  <2>1. Clean /\ Serene
    BY <1>1, <1>2, CleanBefore DEF SessionInv
  <2>2. \A c : ~Lose(c)
    BY <1>1, <1>2, NoneLost
  <2>3. ASSUME UNCHANGED sessionVars PROVE Serene'
    <3>1. UNCHANGED <<tokens, jar, access, signedIn, flight, leaving, req>>
      BY <2>3 DEF sessionVars
    <3>2. /\ Dead' = Dead /\ Live(jar)' = Live(jar)
          /\ \A f : Fits(f)' = Fits(f)
      BY <3>1, SameFlight
    <3> QED
      BY <2>1, <3>1, <3>2
      DEF Serene, OneHolder, Quiet, InFlight, PageKnows, Untouched
  <2>4. ASSUME NEW c \in Refresher, Progress(c) PROVE Serene'
    BY <1>1, <2>1, <2>4, ServerSerene, AnswerSerene DEF Progress
  <2> QED
    BY <1>1, <1>2, <2>1, <2>2, <2>3, <2>4, PageSerene, BrowserSerene
    DEF SessionsNext
<1> QED BY <1>1, <1>2 DEF SessionInv

LEMMA SessionStart == SessionsInit => SessionInv
BY SessionsTypeStart, SereneStart DEF SessionInv

(* "One refresh for every request that is refused" (services/http.ts): pages  *)
(* that send everything through that client never present a token that was    *)
(* rotated away, for any number of requests, page loads, sign-ins and         *)
(* sign-outs that do not cross a refresh.  With the second client they do     *)
(* (two_clients).                                                             *)
THEOREM NoAlarm ==
  ASSUME Client \subseteq {"http"}
  PROVE  SessionsSpec => []NoFalseAlarm
<1>1. SessionInv => NoFalseAlarm
  BY DEF SessionInv, NoFalseAlarm, Serene, Untouched
<1> QED BY <1>1, SessionStart, SessionStep, PTL DEF SessionsSpec

(* A page that shows its visitor as signed in can refresh its session.        *)
THEOREM CookieHeld ==
  ASSUME Client \subseteq {"http"}
  PROVE  SessionsSpec => []SessionHeld
<1>1. SessionInv => SessionHeld
  <2> SUFFICES ASSUME SessionInv, Clean, Quiet, signedIn
               PROVE  jar # None /\ tokens[jar] # "REVOKED"
    BY DEF SessionHeld
  <2>1. jar # None /\ (Dead \/ Live(jar))
    BY DEF SessionInv, Serene, OneHolder, PageKnows
  <2> QED BY <2>1 DEF Dead, Live
<1> QED BY <1>1, SessionStart, SessionStep, PTL DEF SessionsSpec
=============================================================================
