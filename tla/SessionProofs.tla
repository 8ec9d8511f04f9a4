---------------------------- MODULE SessionProofs ----------------------------
(***************************************************************************)
(* Calibration sessions and idempotent creation, for any number of         *)
(* athletes, sessions, keys and attempts; and the same of the sessions     *)
(* kept in a file that processes open and upgrade.                         *)
(***************************************************************************)
EXTENDS SessionDatabase, FiniteSetTheorems, TLAPS

(* What a retry may rely on: a key names one attempt of its athlete, and   *)
(* every answer given under a key still describes the row it named.        *)
KeysAreAnswered ==
  /\ \A a, b \in Attempts :
       made[a].key \in Keys /\ made[a].key = made[b].key
         /\ made[a].athlete = made[b].athlete => a = b
  /\ \A r \in told.returned :
       /\ r.key \in Keys
       /\ made[r.attempt].athlete = r.athlete
       /\ made[r.attempt].key = r.key
       /\ made[r.attempt].input = r.input

SessionInv == TypeOK /\ SessionMakesOneAttempt /\ KeysAreAnswered

-----------------------------------------------------------------------------
(* The tables start out well typed.                                        *)
LEMMA SessionTypeInit == Init => TypeOK
BY CalibrationAssumption DEF Init, TypeOK, NotMade, SessionStates, Inputs

(* Every transaction of the repository on sessions and attempts leaves the *)
(* rows well typed.                                                        *)
LEMMA SessionTypeStep == TypeOK /\ [Next]_vars => TypeOK'
<1> SUFFICES ASSUME TypeOK, [Next]_vars PROVE TypeOK'
  OBVIOUS
<1> USE CalibrationAssumption DEF TypeOK, SessionStates, Inputs, NotMade
<1>1. ASSUME NEW s \in Sessions, NEW athlete \in Athletes, Issue(s, athlete)
      PROVE  TypeOK'
  BY <1>1 DEF Issue
<1>2. ASSUME NEW s \in Sessions, NEW athlete \in Athletes,
             GetCalibrationSession(s, athlete)
      PROVE  TypeOK'
  BY <1>2 DEF GetCalibrationSession, Expired
<1>3. ASSUME NEW s \in Sessions, NEW athlete \in Athletes,
             ReadyCalibrationSession(s, athlete)
      PROVE  TypeOK'
  BY <1>3 DEF ReadyCalibrationSession
<1>4. ASSUME NEW s \in Sessions, TimePasses(s)
      PROVE  TypeOK'
  BY <1>4 DEF TimePasses
<1>5. ASSUME NEW athlete \in Athletes, NEW key \in Keys \cup {NoKey},
             NEW input \in Inputs, ReplayAttempt(athlete, input, key)
      PROVE  TypeOK'
  BY <1>5 DEF ReplayAttempt, Returned, Existing
<1>6. ASSUME NEW athlete \in Athletes, NEW key \in Keys \cup {NoKey},
             NEW a \in Attempts, NEW input \in Inputs,
             CreateAttempt(a, athlete, input, key)
      PROVE  TypeOK'
  <2> DEFINE row == [athlete |-> athlete, input |-> input, key |-> key, deleted |-> FALSE]
             answer == [athlete |-> athlete, key |-> key, input |-> input, attempt |-> a]
  <2>1. /\ made' = [made EXCEPT ![a] = row]
        /\ session' = IF input \in Sessions THEN [session EXCEPT ![input].state = "consumed"]
                      ELSE session
        /\ told' = IF key = NoKey THEN told ELSE [told EXCEPT !.returned = @ \cup {answer}]
        /\ over' = over
    BY <1>6 DEF CreateAttempt, Returned, Consumed
  <2>2. row \in [athlete : Athletes, input : Inputs, key : Keys \cup {NoKey}, deleted : BOOLEAN]
    OBVIOUS
  <2>3. answer \in [athlete : Athletes, key : Keys \cup {NoKey}, input : Inputs, attempt : Attempts]
    OBVIOUS
  <2>4. told' \in [returned : SUBSET [athlete : Athletes, key : Keys, input : Inputs,
                                      attempt : Attempts],
                   expired : SUBSET Sessions]
    BY <2>1, <2>3
  <2>5. /\ made' \in [Attempts -> [athlete : Athletes \cup {NoAthlete}, input : Inputs,
                                  key : Keys \cup {NoKey}, deleted : BOOLEAN]]
        /\ \A b \in Attempts : made'[b].athlete = NoAthlete => made'[b] = NotMade
    BY <2>1, <2>2
  <2>6. session' \in [Sessions -> [state : SessionStates, athlete : Athletes \cup {NoAthlete}]]
    BY <2>1
  <2> QED BY <2>1, <2>4, <2>5, <2>6
<1>7. ASSUME NEW athlete \in Athletes, NEW key \in Keys \cup {NoKey},
             NEW s \in Sessions, RefuseExpired(athlete, s, key)
      PROVE  TypeOK'
  BY <1>7 DEF RefuseExpired
<1>8. ASSUME NEW a \in Attempts, TombstoneAttempt(a)
      PROVE  TypeOK'
  <2>1. made[a].athlete # NoAthlete
    BY <1>8 DEF TombstoneAttempt
  <2>2. \A b \in Attempts \ {a} : made'[b] = made[b]
    BY <1>8 DEF TombstoneAttempt
  <2>3. made'[a].athlete = made[a].athlete
    BY <1>8 DEF TombstoneAttempt
  <2>4. made' \in [Attempts -> [athlete : Athletes \cup {NoAthlete}, input : Inputs,
                               key : Keys \cup {NoKey}, deleted : BOOLEAN]]
    <3> DEFINE row == [made[a] EXCEPT !.deleted = TRUE]
    <3>1. row \in [athlete : Athletes \cup {NoAthlete}, input : Inputs,
                   key : Keys \cup {NoKey}, deleted : BOOLEAN]
      BY ZenonT(60)
    <3>2. made' = [made EXCEPT ![a] = row]
      BY <1>8 DEF TombstoneAttempt
    <3> HIDE DEF row
    <3> QED BY <3>1, <3>2
  <2>5. UNCHANGED <<session, over, told>>
    BY <1>8 DEF TombstoneAttempt
  <2> QED BY <2>1, <2>2, <2>3, <2>4, <2>5
<1>9. ASSUME UNCHANGED vars
      PROVE  TypeOK'
  BY <1>9 DEF vars
<1> QED BY <1>1, <1>2, <1>3, <1>4, <1>5, <1>6, <1>7, <1>8, <1>9 DEF Next

-----------------------------------------------------------------------------
(* A step that leaves the attempts and the use and owner of every session  *)
(* that has an attempt alone keeps SessionMakesOneAttempt.                 *)
LEMMA UseKept ==
  ASSUME TypeOK, SessionMakesOneAttempt,
         \A a \in Attempts : made'[a].input = made[a].input
                             /\ made'[a].athlete = made[a].athlete,
         \A s \in Sessions :
           \/ session'[s] = session[s]
           \/ /\ session[s].state # "consumed"
              /\ session'[s].state # "consumed"
  PROVE  SessionMakesOneAttempt'
<1> SUFFICES ASSUME NEW s \in Sessions
             PROVE  /\ \A a, b \in Users(s)' : a = b
                    /\ Users(s)' # {} <=> session'[s].state = "consumed"
                    /\ \A a \in Users(s)' : made'[a].athlete = session'[s].athlete
  BY DEF SessionMakesOneAttempt
<1>1. Users(s)' = Users(s)
  BY DEF Users
<1>2. \A a \in Users(s) : a \in Attempts /\ made'[a].athlete = made[a].athlete
  BY DEF Users
<1> QED BY <1>1, <1>2 DEF SessionMakesOneAttempt

(* Creation consumes the session it uses: of all requests made for it, in  *)
(* whatever order, one makes the attempt.                                  *)
LEMMA UseStep == TypeOK /\ SessionMakesOneAttempt /\ [Next]_vars => SessionMakesOneAttempt'
<1> SUFFICES ASSUME TypeOK, SessionMakesOneAttempt, [Next]_vars
             PROVE  SessionMakesOneAttempt'
  OBVIOUS
<1>1. ASSUME NEW s \in Sessions, NEW athlete \in Athletes,
             \/ Issue(s, athlete)
             \/ GetCalibrationSession(s, athlete)
             \/ ReadyCalibrationSession(s, athlete)
      PROVE  SessionMakesOneAttempt'
  <2>1. UNCHANGED made
    BY <1>1 DEF Issue, GetCalibrationSession, ReadyCalibrationSession
  <2>2. \A t \in Sessions \ {s} : session'[t] = session[t]
    BY <1>1 DEF Issue, GetCalibrationSession, ReadyCalibrationSession, Expired, TypeOK
  <2>3. \/ session'[s] = session[s]
        \/ session[s].state # "consumed" /\ session'[s].state # "consumed"
    BY <1>1 DEF Issue, GetCalibrationSession, ReadyCalibrationSession, ReadyAnswer,
       Expired, TypeOK
  <2> QED BY <2>1, <2>2, <2>3, UseKept
<1>2. ASSUME NEW athlete \in Athletes, NEW key \in Keys \cup {NoKey},
             NEW a \in Attempts, NEW input \in Inputs,
             CreateAttempt(a, athlete, input, key)
      PROVE  SessionMakesOneAttempt'
  <2>1. /\ made[a].input = FreeInput /\ made'[a].input = input
        /\ made'[a].athlete = athlete
        /\ \A b \in Attempts \ {a} : made'[b] = made[b]
    BY <1>2 DEF CreateAttempt, NotMade, TypeOK
  <2> SUFFICES ASSUME NEW s \in Sessions
               PROVE  /\ \A b, c \in Users(s)' : b = c
                      /\ Users(s)' # {} <=> session'[s].state = "consumed"
                      /\ \A b \in Users(s)' : made'[b].athlete = session'[s].athlete
    BY DEF SessionMakesOneAttempt
  <2>2. CASE s = input
    <3>1. /\ session[s].state = "ready" /\ session[s].athlete = athlete
          /\ session'[s].state = "consumed" /\ session'[s].athlete = athlete
      BY <2>2, <1>2 DEF CreateAttempt, ConsumeAnswer, Known, Consumed, TypeOK
    <3>2. Users(s) = {}
      BY <3>1 DEF SessionMakesOneAttempt
    <3>3. Users(s)' = {a}
      BY <3>2, <2>1, <2>2 DEF Users
    <3> QED BY <3>1, <3>3, <2>1
  <2>3. CASE s # input
    <3>1. session'[s] = session[s]
      BY <2>3, <1>2 DEF CreateAttempt, Consumed, TypeOK
    <3>2. Users(s)' = Users(s)
      BY <2>1, <2>3, CalibrationAssumption DEF Users
    <3>3. \A b \in Users(s) : made'[b] = made[b]
      BY <2>1, CalibrationAssumption DEF Users
    <3> QED BY <3>1, <3>2, <3>3 DEF SessionMakesOneAttempt
  <2> QED BY <2>2, <2>3
<1>3. ASSUME NEW a \in Attempts, TombstoneAttempt(a)
      PROVE  SessionMakesOneAttempt'
  <2>1. \A b \in Attempts : made'[b].input = made[b].input
                            /\ made'[b].athlete = made[b].athlete
    BY <1>3 DEF TombstoneAttempt, TypeOK
  <2> QED BY <2>1, <1>3, UseKept DEF TombstoneAttempt
<1>4. ASSUME UNCHANGED <<session, made>>
      PROVE  SessionMakesOneAttempt'
  BY <1>4, UseKept
<1> QED
  BY <1>1, <1>2, <1>3, <1>4
  DEF Next, TimePasses, ReplayAttempt, RefuseExpired, vars

-----------------------------------------------------------------------------
(* An answer given under a key is one the key's attempt deserves, and it   *)
(* stays so: nothing rewrites the athlete, the key or the input of a row.  *)
LEMMA KeysStep == TypeOK /\ KeysAreAnswered /\ [Next]_vars => KeysAreAnswered'
<1> SUFFICES ASSUME TypeOK, KeysAreAnswered, [Next]_vars
             PROVE  KeysAreAnswered'
  OBVIOUS
<1>1. ASSUME UNCHANGED made, told'.returned = told.returned
      PROVE  KeysAreAnswered'
  BY <1>1 DEF KeysAreAnswered
<1>2. ASSUME NEW athlete \in Athletes, NEW key \in Keys \cup {NoKey},
             NEW input \in Inputs, ReplayAttempt(athlete, input, key)
      PROVE  KeysAreAnswered'
  <2> DEFINE answer(a) == [athlete |-> athlete, key |-> key, input |-> input,
                           attempt |-> a]
  <2>1. PICK a \in Existing(athlete, key) :
          ReplayAllowed(a, input) /\ Returned(athlete, input, key, a)
    BY <1>2 DEF ReplayAttempt
  <2>2. /\ UNCHANGED made /\ key \in Keys
        /\ made[a].athlete = athlete /\ made[a].key = key /\ made[a].input = input
    BY <1>2, <2>1 DEF ReplayAttempt, ReplayAllowed, Existing
  <2>3. told'.returned = told.returned \cup {answer(a)}
    BY <2>1, <2>2, CalibrationAssumption DEF Returned, TypeOK
  <2> QED BY <2>2, <2>3 DEF KeysAreAnswered
<1>3. ASSUME NEW athlete \in Athletes, NEW key \in Keys \cup {NoKey},
             NEW a \in Attempts, NEW input \in Inputs,
             CreateAttempt(a, athlete, input, key)
      PROVE  KeysAreAnswered'
  <2> DEFINE answer == [athlete |-> athlete, key |-> key, input |-> input,
                        attempt |-> a]
  <2>1. /\ made[a].key = NoKey /\ made'[a].key = key
        /\ made'[a].athlete = athlete /\ made'[a].input = input
        /\ \A b \in Attempts \ {a} : made'[b] = made[b]
    BY <1>3 DEF CreateAttempt, NotMade, TypeOK
  <2>2. \A b \in Attempts : ~(key \in Keys /\ made[b].athlete = athlete /\ made[b].key = key)
    BY <1>3, CalibrationAssumption DEF CreateAttempt, Existing
  <2>3. told'.returned = told.returned \cup (IF key = NoKey THEN {} ELSE {answer})
    BY <1>3 DEF CreateAttempt, Returned, TypeOK
  <2>4. \A r \in told.returned : r.attempt \in Attempts \ {a}
    BY <2>1, CalibrationAssumption DEF KeysAreAnswered, TypeOK
  <2>5. \A b, c \in Attempts :
          made'[b].key \in Keys /\ made'[b].key = made'[c].key
            /\ made'[b].athlete = made'[c].athlete => b = c
    BY <2>1, <2>2 DEF KeysAreAnswered
  <2>6. \A r \in told'.returned :
          /\ r.key \in Keys
          /\ made'[r.attempt].athlete = r.athlete
          /\ made'[r.attempt].key = r.key
          /\ made'[r.attempt].input = r.input
    BY <2>1, <2>3, <2>4 DEF KeysAreAnswered
  <2> QED BY <2>5, <2>6 DEF KeysAreAnswered
<1>4. ASSUME NEW a \in Attempts, TombstoneAttempt(a)
      PROVE  KeysAreAnswered'
  <2>1. \A b \in Attempts : /\ made'[b].input = made[b].input
                            /\ made'[b].athlete = made[b].athlete
                            /\ made'[b].key = made[b].key
    BY <1>4 DEF TombstoneAttempt, TypeOK
  <2>2. \A r \in told.returned : r.attempt \in Attempts
    BY DEF TypeOK
  <2> QED BY <1>4, <2>1, <2>2 DEF TombstoneAttempt, KeysAreAnswered
<1>5. ASSUME NEW s \in Sessions, NEW athlete \in Athletes,
             ReadyCalibrationSession(s, athlete)
      PROVE  KeysAreAnswered'
  BY <1>1, <1>5 DEF ReadyCalibrationSession, TypeOK
<1>6. ASSUME NEW athlete \in Athletes, NEW key \in Keys \cup {NoKey},
             NEW s \in Sessions, RefuseExpired(athlete, s, key)
      PROVE  KeysAreAnswered'
  BY <1>1, <1>6 DEF RefuseExpired, TypeOK
<1> QED
  BY <1>1, <1>2, <1>3, <1>4, <1>5, <1>6
  DEF Next, Issue, TimePasses, GetCalibrationSession, vars

-----------------------------------------------------------------------------
(* The invariant the results on sessions rest on: typing, and the two      *)
(* agreements between the rows and the answers that requests were given.   *)
THEOREM SessionInvariant == Spec => []SessionInv
<1>1. Init => SessionInv
  <2> SUFFICES ASSUME Init PROVE SessionMakesOneAttempt /\ KeysAreAnswered
    BY SessionTypeInit DEF SessionInv
  <2>1. \A s \in Sessions : Users(s) = {} /\ session[s].state = "none"
    BY CalibrationAssumption DEF Init, Users, NotMade
  <2>2. told.returned = {} /\ \A a \in Attempts : made[a].key \notin Keys
    BY CalibrationAssumption DEF Init, NotMade
  <2> QED BY <2>1, <2>2 DEF SessionMakesOneAttempt, KeysAreAnswered
<1>2. SessionInv /\ [Next]_vars => SessionInv'
  BY SessionTypeStep, UseStep, KeysStep DEF SessionInv
<1> QED BY <1>1, <1>2, PTL DEF Spec

(* A key's answers agree as soon as each agrees with the row it names.     *)
LEMMA AnsweredKeysNameOneAttempt == SessionInv => KeyNamesOneAttempt
<1> SUFFICES ASSUME SessionInv, NEW r1 \in told.returned, NEW r2 \in told.returned,
                    r1.athlete = r2.athlete, r1.key = r2.key
             PROVE  r1 = r2
  BY DEF KeyNamesOneAttempt
<1>1. /\ r1 \in [athlete : Athletes, key : Keys, input : Inputs, attempt : Attempts]
      /\ r2 \in [athlete : Athletes, key : Keys, input : Inputs, attempt : Attempts]
  BY DEF SessionInv, TypeOK
<1>2. r1.attempt = r2.attempt
  BY <1>1 DEF SessionInv, KeysAreAnswered
<1>3. r1.input = r2.input
  BY <1>2 DEF SessionInv, KeysAreAnswered
<1> QED BY <1>1, <1>2, <1>3

(* A session whose time is over is refused, whatever its row says.         *)
LEMMA OverStep ==
  ASSUME TypeOK, [Next]_vars, NEW s \in over, Users(s) = {}
  PROVE  Users(s)' = {}
<1>1. CASE \E athlete \in Athletes, key \in Keys \cup {NoKey}, a \in Attempts,
              input \in Inputs : CreateAttempt(a, athlete, input, key)
  <2>1. PICK athlete \in Athletes, key \in Keys \cup {NoKey}, a \in Attempts,
             input \in Inputs : CreateAttempt(a, athlete, input, key)
    BY <1>1
  <2>2. input # s
    BY <2>1 DEF CreateAttempt, ConsumeAnswer, TypeOK
  <2>3. /\ made'[a].input = input
        /\ \A b \in Attempts \ {a} : made'[b] = made[b]
    BY <2>1 DEF CreateAttempt, TypeOK
  <2> QED BY <2>2, <2>3 DEF Users
<1>2. CASE \E a \in Attempts : TombstoneAttempt(a)
  <2>1. \A b \in Attempts : made'[b].input = made[b].input
    BY <1>2 DEF TombstoneAttempt, TypeOK
  <2> QED BY <2>1 DEF Users
<1>3. CASE UNCHANGED made
  BY <1>3 DEF Users
<1> QED
  BY <1>1, <1>2, <1>3
  DEF Next, Issue, TimePasses, GetCalibrationSession, ReadyCalibrationSession,
      ReplayAttempt, RefuseExpired, vars

-----------------------------------------------------------------------------
(* createAttempt, retried and raced by anybody with any key, makes at most *)
(* one attempt of a session, and the two tables agree on its use.          *)
THEOREM SessionUsedOnce == Spec => []SessionMakesOneAttempt
<1>1. SessionInv => SessionMakesOneAttempt
  BY DEF SessionInv
<1> QED BY <1>1, SessionInvariant, PTL

(* Every retry under an idempotency key was given the same attempt.        *)
THEOREM KeysAreIdempotent == Spec => []KeyNamesOneAttempt
BY AnsweredKeysNameOneAttempt, SessionInvariant, PTL

(* Once expires_at has passed, an unused session makes no attempt.         *)
THEOREM ExpiryIsFinal == Spec => ExpiredSessionStaysUnused
<1>1. SessionInv /\ [Next]_vars => [\A s \in over : Users(s) = {} => Users(s)' = {}]_vars
  BY OverStep DEF SessionInv
<1> QED BY <1>1, SessionInvariant, PTL DEF Spec, ExpiredSessionStaysUnused

(* The processes that open and upgrade the file, and the write lock they   *)
(* hold meanwhile, only delay the sessions' transactions: whatever they    *)
(* do, the repository behaves as if the file had always been there.        *)
THEOREM FileKeepsSessions == StoreSpec => Spec
<1>1. StoreInit => Init
  BY DEF StoreInit
<1>2. [StoreNext]_<<vars, disk>> => [Next]_vars
  BY DEF StoreNext, SessionStep, UpgradeStep
<1> QED BY <1>1, <1>2, PTL DEF StoreSpec, Spec

-----------------------------------------------------------------------------
(* The order of results that v18 writes down: in a finite table with       *)
(* distinct identifiers the number of older rows tells any two rows apart. *)

Rank(d, f) == Cardinality({e \in d.entries : Older(e, f)})
Numbered(d, f) == [f EXCEPT !.sequence = Rank(d, f)]

LEMMA RanksTellApart ==
  ASSUME NEW d, d.entries \in SUBSET EntryRows, IsFiniteSet(d.entries),
         \A e, f \in d.entries : e.id = f.id => e = f,
         NEW e \in d.entries, NEW f \in d.entries
  PROVE  /\ Rank(d, e) \in 1..Cardinality(d.entries)
         /\ e # f /\ Older(e, f) => Rank(d, e) < Rank(d, f)
         /\ Rank(d, e) = Rank(d, f) => e = f
<1> DEFINE below(x) == {y \in d.entries : Older(y, x)}
<1>1. \A x \in d.entries : x.id \in Nat /\ x.created \in Nat
  BY DEF EntryRows
<1>2. \A x \in d.entries : /\ IsFiniteSet(below(x)) /\ Cardinality(below(x)) \in Nat
                           /\ Cardinality(below(x)) <= Cardinality(d.entries)
                           /\ Cardinality(below(x)) # 0
  <2> SUFFICES ASSUME NEW x \in d.entries
               PROVE  /\ IsFiniteSet(below(x)) /\ Cardinality(below(x)) \in Nat
                      /\ Cardinality(below(x)) <= Cardinality(d.entries)
                      /\ Cardinality(below(x)) # 0
    OBVIOUS
  <2>1. x \in below(x)
    BY <1>1 DEF Older
  <2>2. below(x) \in SUBSET d.entries
    OBVIOUS
  <2>3. /\ IsFiniteSet(below(x))
        /\ Cardinality(below(x)) <= Cardinality(d.entries)
    BY <2>2, FS_Subset
  <2>4. Cardinality(below(x)) \in Nat
    BY <2>3, FS_CardinalityType
  <2>5. Cardinality(below(x)) # 0
    BY <2>1, <2>3, FS_EmptySet
  <2> QED BY <2>3, <2>4, <2>5
<1>3. ASSUME NEW x \in d.entries, NEW y \in d.entries, x # y, Older(x, y)
      PROVE  Cardinality(below(x)) < Cardinality(below(y))
  <2>1. below(x) \in SUBSET below(y)
    BY <1>1, <1>3 DEF Older, EarlierTime
  <2>2. y \in below(y)
    BY <1>1 DEF Older
  <2>3. y \notin below(x)
    BY <1>1, <1>3 DEF Older, EarlierTime
  <2>4. /\ Cardinality(below(x)) <= Cardinality(below(y))
        /\ Cardinality(below(x)) # Cardinality(below(y))
    BY <1>2, <2>1, <2>2, <2>3, FS_Subset
  <2> QED BY <1>2, <2>4
<1>4. Older(e, f) \/ Older(f, e)
  BY <1>1 DEF Older, EarlierTime
<1>5. Cardinality(d.entries) \in Nat
  BY FS_CardinalityType
<1>6. Rank(d, e) = Cardinality(below(e)) /\ Rank(d, f) = Cardinality(below(f))
  BY DEF Rank
<1> HIDE DEF below
<1>7. Rank(d, e) \in 1..Cardinality(d.entries)
  BY <1>2, <1>5, <1>6
<1>8. e # f /\ Older(e, f) => Rank(d, e) < Rank(d, f)
  BY <1>3, <1>6
<1>9. ASSUME e # f PROVE Rank(d, e) # Rank(d, f)
  <2>1. Cardinality(below(e)) < Cardinality(below(f))
        \/ Cardinality(below(f)) < Cardinality(below(e))
    BY <1>3, <1>4, <1>9
  <2> QED BY <1>2, <1>6, <2>1
<1> QED BY <1>7, <1>8, <1>9

LEMMA CommitOrderRanks ==
  ASSUME NEW d \in Data, IsFiniteSet(d.entries),
         \A e, f \in d.entries : e.id = f.id => e = f
  PROVE  /\ CommitOrder(d) \in Data
         /\ RankingIsSound(CommitOrder(d)) /\ RankedInOrder(CommitOrder(d))
         /\ IsFiniteSet(CommitOrder(d).entries)
         /\ \A e, f \in CommitOrder(d).entries : e.id = f.id => e = f
         /\ DistinctSequences(CommitOrder(d))
<1> DEFINE new == {Numbered(d, f) : f \in d.entries}
           size == Cardinality(d.entries)
<1>1. CommitOrder(d) = [d EXCEPT !.entries = new, !.clock = size]
  BY DEF CommitOrder, Numbered, Rank
<1>2. /\ d.entries \in SUBSET EntryRows /\ size \in Nat
  BY FS_CardinalityType DEF Data
<1>3. \A f \in d.entries : Rank(d, f) \in 1..size
  BY <1>2, RanksTellApart
<1>4. \A f \in d.entries :
        /\ Numbered(d, f) \in EntryRows /\ Numbered(d, f).id = f.id
        /\ Numbered(d, f).created = f.created /\ Numbered(d, f).sequence = Rank(d, f)
  BY <1>2, <1>3 DEF Numbered, EntryRows
<1>5. IsFiniteSet(new) /\ Cardinality(new) = size
  <2> DEFINE g == [f \in d.entries |-> Numbered(d, f)]
  <2>1. g \in Bijection(d.entries, new)
    <3>1. \A e, f \in d.entries : g[e] = g[f] => e = f
      <4> SUFFICES ASSUME NEW e \in d.entries, NEW f \in d.entries, g[e] = g[f]
                   PROVE  e = f
        OBVIOUS
      <4>1. Numbered(d, e) = Numbered(d, f)
        OBVIOUS
      <4> QED BY <1>4, <4>1
    <3>2. g \in [d.entries -> new]
      OBVIOUS
    <3>3. \A t \in new : \E f \in d.entries : g[f] = t
      OBVIOUS
    <3> QED BY <3>1, <3>2, <3>3 DEF Bijection, Injection, Surjection, IsInjective
  <2> QED BY <2>1, FS_Bijection DEF ExistsBijection
<1> HIDE DEF size
<1>6. /\ CommitOrder(d) \in Data /\ CommitOrder(d).entries = new
      /\ CommitOrder(d).clock = size
  <2>1. new \in SUBSET EntryRows
    BY <1>4
  <2> HIDE DEF new
  <2> QED BY <1>1, <1>2, <2>1, ZenonT(60) DEF Data
<1>7. ASSUME NEW x \in new, NEW y \in new
      PROVE  /\ x.id = y.id => x = y
             /\ x.sequence = y.sequence => x = y
             /\ EarlierTime(x, y) => x.sequence < y.sequence
             /\ x.sequence \in 1..size
  <2>1. PICK e \in d.entries : x = Numbered(d, e)
    OBVIOUS
  <2>2. PICK f \in d.entries : y = Numbered(d, f)
    OBVIOUS
  <2>3. /\ x.id = e.id /\ y.id = f.id /\ x.created = e.created /\ y.created = f.created
        /\ x.sequence = Rank(d, e) /\ y.sequence = Rank(d, f)
    BY <1>4, <2>1, <2>2
  <2>4. /\ e # f /\ Older(e, f) => Rank(d, e) < Rank(d, f)
        /\ Rank(d, e) = Rank(d, f) => e = f
    BY <1>2, RanksTellApart
  <2>5. EarlierTime(x, y) => e # f /\ Older(e, f)
    BY <1>2, <2>3 DEF EarlierTime, Older, EntryRows
  <2> QED BY <1>3, <2>1, <2>2, <2>3, <2>4, <2>5
<1> HIDE DEF new
<1>8. RankingIsSound(CommitOrder(d))
  BY <1>6, <1>7 DEF RankingIsSound
<1>9. RankedInOrder(CommitOrder(d))
  BY <1>5, <1>6, <1>7 DEF RankedInOrder
<1> QED BY <1>5, <1>6, <1>7, <1>8, <1>9 DEF DistinctSequences

-----------------------------------------------------------------------------
(* What a migration makes of the rows of the version before it.            *)

(* A migration that concerns the attempt leaves the receipts, the policies *)
(* and the results alone.                                                  *)
AttemptAlone(d, m) ==
  /\ m \in Data
  /\ m.entries = d.entries /\ m.clock = d.clock
  /\ m.policy = d.policy /\ m.policyDigest = d.policyDigest /\ m.receipt = d.receipt
  /\ m.invalidated = d.invalidated /\ m.quarantined = d.quarantined
  /\ m.snapshot = d.snapshot /\ m.clash = d.clash
  /\ m.retries \in {d.retries, "no"} /\ m.media \in {d.media, "no", "six"}

LEMMA AttemptMigrates ==
  ASSUME NEW v \in 5..22, NEW d \in Data, NEW m, LeftBy(v, d), AttemptAlone(d, m),
         v + 1 \notin {6, 7, 9, 14, 15, 18, 22},
         v + 1 >= 11 => m.media # "four",
         v + 1 >= 13 => m.media \in {"no", "six"},
         v + 1 >= 20 => DeliveryIsSound(m),
         v + 1 >= 21 => (m.life = "active" /\ OwnResult(m) => m.status = "terminal")
  PROVE  LeftBy(v + 1, m)
<1>1. RankingIsSound(d) => RankingIsSound(m)
  BY DEF AttemptAlone, RankingIsSound
<1>2. /\ IsFiniteSet(m.entries) /\ \A e, f \in m.entries : e.id = f.id => e = f
      /\ m.policy # "no" => m.receipt # "no" /\ m.policyDigest = m.receipt
  BY DEF AttemptAlone, LeftBy
<1>3. /\ v + 1 >= 5 => ~m.clash
      /\ v + 1 >= 6 => m.invalidated # "garbled"
      /\ v + 1 >= 7 => ~m.snapshot
      /\ v + 1 >= 9 => m.retries # "unsound" /\ m.invalidated # "no-such-day"
      /\ v + 1 >= 14 => m.policy # "unbound"
      /\ v + 1 >= 15 => m.receipt \in {"no", "current"}
      /\ v + 1 >= 22 => (m.quarantined => m.invalidated = "no")
  <2>1. /\ v >= 5 /\ v >= 6
        /\ v + 1 >= 7 => v >= 7
        /\ v + 1 >= 9 => v >= 9
        /\ v + 1 >= 14 => v >= 14
        /\ v + 1 >= 15 => v >= 15
        /\ v + 1 >= 22 => v >= 22
    OBVIOUS
  <2>2. ~m.clash /\ m.invalidated # "garbled" /\ (v >= 7 => ~m.snapshot)
    BY <2>1 DEF AttemptAlone, LeftBy
  <2>3. v >= 9 => m.retries # "unsound" /\ m.invalidated # "no-such-day"
    BY DEF AttemptAlone, LeftBy
  <2>4. /\ v >= 14 => m.policy # "unbound"
        /\ v >= 15 => m.receipt \in {"no", "current"}
        /\ v >= 22 => (m.quarantined => m.invalidated = "no")
    BY DEF AttemptAlone, LeftBy
  <2> QED BY <2>1, <2>2, <2>3, <2>4
<1>4. v + 1 >= 18 => RankingIsSound(m)
  <2>1. v + 1 >= 18 => v >= 18
    OBVIOUS
  <2> QED BY <1>1, <2>1 DEF LeftBy
<1> QED BY <1>2, <1>3, <1>4 DEF LeftBy

LEMMA ResetsAttempt ==
  ASSUME NEW d \in Data
  PROVE  /\ AttemptAlone(d, Reset(d)) /\ Reset(d).status = "awaiting-upload"
         /\ Reset(d).media = "no" /\ Reset(d).deliveries = d.deliveries
         /\ Reset(d).life = d.life
<1> DEFINE a == [d EXCEPT !.status = "awaiting-upload"]
           b == [a EXCEPT !.generation = d.generation + 1]
           c == [b EXCEPT !.media = "no"]
           m == [c EXCEPT !.context = "no"]
<1>1. d.generation + 1 \in Nat
  <2>1. d.generation \in Nat
    BY DEF Data
  <2> QED BY <2>1
<1>2. Reset(d) = m
  BY DEF Reset, Data
<1>3. /\ AttemptAlone(d, a) /\ a.status = "awaiting-upload"
      /\ a.deliveries = d.deliveries /\ a.life = d.life
  BY DEF Data, AttemptAlone
<1>4. a \in Data
  BY <1>3 DEF AttemptAlone
<1> HIDE DEF a
<1>5. /\ AttemptAlone(a, b) /\ b.status = a.status
      /\ b.deliveries = a.deliveries /\ b.life = a.life
  BY <1>1, <1>4 DEF Data, AttemptAlone
<1>6. b \in Data
  BY <1>5 DEF AttemptAlone
<1> HIDE DEF b
<1>7. /\ AttemptAlone(b, c) /\ c.status = b.status /\ c.media = "no"
      /\ c.deliveries = b.deliveries /\ c.life = b.life
  BY <1>6 DEF Data, AttemptAlone
<1>8. c \in Data
  BY <1>7 DEF AttemptAlone
<1> HIDE DEF c
<1>9. /\ AttemptAlone(c, m) /\ m.status = c.status /\ m.media = c.media
      /\ m.deliveries = c.deliveries /\ m.life = c.life
  <2>1. m \in Data
    BY <1>8 DEF Data
  <2>2. /\ m.entries = c.entries /\ m.clock = c.clock
        /\ m.policy = c.policy /\ m.policyDigest = c.policyDigest
        /\ m.receipt = c.receipt /\ m.invalidated = c.invalidated
    BY <1>8 DEF Data
  <2>3. /\ m.quarantined = c.quarantined /\ m.snapshot = c.snapshot
        /\ m.clash = c.clash
    BY <1>8 DEF Data
  <2>4. m.status = c.status /\ m.media = c.media /\ m.deliveries = c.deliveries
        /\ m.life = c.life /\ m.retries \in {c.retries, "no"}
    BY <1>8 DEF Data
  <2> QED BY <2>1, <2>2, <2>3, <2>4 DEF AttemptAlone
<1>10. AttemptAlone(d, m)
  BY <1>3, <1>5, <1>7, <1>9 DEF AttemptAlone
<1> QED BY <1>2, <1>3, <1>5, <1>7, <1>9, <1>10

LEMMA BackfillConcernsAttempt ==
  ASSUME NEW d \in Data
  PROVE  AttemptAlone(d, Backfilled(d)) /\ Backfilled(d).media \in {d.media, "no"}
<1> DEFINE known == {r \in d.deliveries : r.generation = d.generation}
           row == [generation |-> d.generation, media |-> TRUE, frame |-> "own",
                   state |-> IF d.status = "uploaded" THEN "cleanup-recoverable" ELSE "queued",
                   rollback |-> d.status = "uploaded", queuedAt |-> FALSE]
           filled(r) == [r EXCEPT !.frame = IF r.frame = "none" THEN "own" ELSE r.frame]
           rows == (d.deliveries \ known)
                     \cup (IF known = {} THEN {row} ELSE {filled(r) : r \in known})
<1>1. Backfilled(d) = IF ~Live(d) THEN d
                      ELSE IF ~HasIdentity(d) THEN Reset(d)
                      ELSE [d EXCEPT !.deliveries = rows]
  BY DEF Backfilled
<1>2. rows \in SUBSET DeliveryRows
  <2>1. d.deliveries \in SUBSET DeliveryRows /\ d.generation \in Nat
    BY DEF Data
  <2>2. row \in DeliveryRows
    BY <2>1 DEF DeliveryRows, Undelivered
  <2>3. \A r \in known : filled(r) \in DeliveryRows
    BY <2>1 DEF DeliveryRows
  <2> HIDE DEF row, filled
  <2> QED BY <2>1, <2>2, <2>3
<1> HIDE DEF rows
<1>3. AttemptAlone(d, d)
  BY DEF AttemptAlone
<1>4. LET m == [d EXCEPT !.deliveries = rows]
      IN  AttemptAlone(d, m) /\ m.media = d.media
  BY <1>2 DEF Data, AttemptAlone
<1> QED BY <1>1, <1>3, <1>4, ResetsAttempt

LEMMA DeliveriesAreNormalized ==
  ASSUME NEW d \in Data, d.media \in {"no", "six"}
  PROVE  LET m == DeliveriesNormalized(d)
         IN  /\ AttemptAlone(d, m) /\ m.media \in {"no", "six"}
             /\ DeliveryIsSound(m) /\ DeliveriesAreRepaired(m)
<1>1. /\ d.deliveries \in SUBSET DeliveryRows /\ d.generation \in Nat
      /\ d.status \in {"awaiting-upload", "uploaded", "processing", "terminal"}
  BY DEF Data
<1>2. CASE Live(d) /\ Authorized(d)
  <2> DEFINE row == LiveDelivery(d)
             m == [d EXCEPT !.deliveries = {row}]
  <2>1. DeliveriesNormalized(d) = m
    BY <1>2 DEF DeliveriesNormalized
  <2>2. row \in DeliveryRows
    BY <1>1 DEF LiveDelivery, DeliveryRows, Undelivered
  <2>3. AttemptAlone(d, m) /\ m.deliveries = {row} /\ m.media = d.media
        /\ m.life = d.life /\ m.status = d.status /\ m.context = d.context
        /\ m.facts = d.facts /\ m.generation = d.generation
    BY <2>2 DEF Data, AttemptAlone
  <2>4. Live(m) /\ ContextIsExact(m) /\ Owned(m)
    BY <1>2, <2>3 DEF Live, Authorized, ContextIsExact, Uploaded, Owned
  <2>5. /\ Agrees(m, row) /\ row.state \in Undelivered /\ row.generation = m.generation
        /\ row.frame # "none" /\ row.state # "cleanup-recoverable"
        /\ row.state = "pending-delivery" => row.rollback /\ ~row.queuedAt
        /\ row.state = "queued" => ~row.rollback /\ row.queuedAt
    BY <1>1, <1>2, <2>3 DEF LiveDelivery, Agrees, Undelivered, Live
  <2>6. DeliveryIsSound(m)
    BY <2>3, <2>4, <2>5 DEF DeliveryIsSound
  <2>7. DeliveriesAreRepaired(m)
    BY <2>3, <2>4, <2>5 DEF DeliveriesAreRepaired
  <2> QED BY <2>1, <2>3, <2>6, <2>7
<1>3. CASE Live(d) /\ ~Authorized(d)
  <2> DEFINE m == [Reset(d) EXCEPT !.deliveries = {}]
  <2>1. DeliveriesNormalized(d) = m
    BY <1>3 DEF DeliveriesNormalized
  <2>2. AttemptAlone(d, m) /\ m.deliveries = {} /\ m.media = "no"
        /\ m.status = "awaiting-upload"
    <3>1. /\ AttemptAlone(d, Reset(d)) /\ Reset(d).media = "no"
          /\ Reset(d).status = "awaiting-upload"
      BY ResetsAttempt
    <3> QED BY <3>1 DEF Data, AttemptAlone
  <2>3. DeliveryIsSound(m) /\ DeliveriesAreRepaired(m)
    BY <2>2 DEF DeliveryIsSound, DeliveriesAreRepaired, Live
  <2> QED BY <2>1, <2>2, <2>3
<1>4. CASE ~Live(d)
  <2> DEFINE rows == IF d.life = "tombstoned" THEN CleanupDelivery(d) ELSE {}
             m == [d EXCEPT !.deliveries = rows]
  <2>1. DeliveriesNormalized(d) = m
    BY <1>4 DEF DeliveriesNormalized
  <2>2. \A r \in rows : /\ r \in DeliveryRows /\ r.frame = "own"
                        /\ r.state = "cleanup-recoverable" /\ ~r.rollback /\ ~r.queuedAt
    <3> SUFFICES ASSUME NEW r \in rows
                 PROVE  /\ r \in DeliveryRows /\ r.frame = "own"
                        /\ r.state = "cleanup-recoverable" /\ ~r.rollback /\ ~r.queuedAt
      OBVIOUS
    <3>1. PICK x \in d.deliveries :
            /\ OfLastUpload(d, x)
            /\ r = [x EXCEPT !.state = "cleanup-recoverable", !.rollback = FALSE,
                             !.queuedAt = FALSE]
      BY DEF CleanupDelivery
    <3>2. x \in DeliveryRows /\ x.frame = "own"
      BY <1>1, <3>1 DEF OfLastUpload
    <3> QED BY <3>1, <3>2 DEF DeliveryRows
  <2>a. \A r \in rows : d.life = "tombstoned" /\ Owned(d)
    BY DEF CleanupDelivery
  <2> HIDE DEF rows
  <2>3. AttemptAlone(d, m) /\ m.deliveries = rows /\ m.media = d.media
        /\ m.life = d.life /\ m.status = d.status /\ m.facts = d.facts
    BY <2>2 DEF Data, AttemptAlone
  <2>4. DeliveryIsSound(m)
    BY <1>4, <2>2, <2>3 DEF DeliveryIsSound, Live, Undelivered
  <2>5. DeliveriesAreRepaired(m)
    BY <1>4, <2>2, <2>a, <2>3 DEF DeliveriesAreRepaired, Live, Owned
  <2> QED BY <2>1, <2>3, <2>4, <2>5
<1> QED BY <1>2, <1>3, <1>4

LEMMA TerminalIsSettled ==
  ASSUME NEW d \in Data, d.media \in {"no", "six"}, DeliveryIsSound(d)
  PROVE  LET m == TerminalSettled(d)
         IN  /\ AttemptAlone(d, m) /\ DeliveryIsSound(m) /\ m.media \in {"no", "six"}
             /\ m.life = "active" /\ OwnResult(m) => m.status = "terminal"
             /\ DeliveriesAreRepaired(d) => DeliveriesAreRepaired(m)
<1>1. CASE d.life # "active" \/ d.status = "terminal" \/ ~OwnResult(d)
  BY <1>1 DEF TerminalSettled, AttemptAlone
<1>2. CASE ~(d.life # "active" \/ d.status = "terminal" \/ ~OwnResult(d))
  <2> DEFINE rows == {r \in d.deliveries : r.state \notin Undelivered}
             m == [d EXCEPT !.status = "terminal", !.context = "no", !.retries = "no",
                            !.deliveries = rows]
  <2>1. TerminalSettled(d) = m
    BY <1>2 DEF TerminalSettled
  <2>2. rows \in SUBSET DeliveryRows
    BY DEF Data
  <2>3. \A r \in rows : r \in d.deliveries /\ r.state \notin Undelivered
    OBVIOUS
  <2> HIDE DEF rows
  <2>4. AttemptAlone(d, m) /\ m.deliveries = rows /\ m.media = d.media
        /\ m.status = "terminal"
    <3> DEFINE a == [d EXCEPT !.status = "terminal"]
               b == [a EXCEPT !.context = "no"]
               c == [b EXCEPT !.retries = "no"]
               e == [c EXCEPT !.deliveries = rows]
    <3>1. m = e
      BY DEF Data
    <3>2. AttemptAlone(d, a) /\ a.status = "terminal" /\ a.media = d.media
      BY DEF Data, AttemptAlone
    <3>3. a \in Data
      BY <3>2 DEF AttemptAlone
    <3> HIDE DEF a
    <3>4. AttemptAlone(a, b) /\ b.status = a.status /\ b.media = a.media
      BY <3>3 DEF Data, AttemptAlone
    <3>5. b \in Data
      BY <3>4 DEF AttemptAlone
    <3> HIDE DEF b
    <3>6. AttemptAlone(b, c) /\ c.status = b.status /\ c.media = b.media
      <4>1. c \in Data
        BY <3>5 DEF Data
      <4>2. /\ c.entries = b.entries /\ c.clock = b.clock
            /\ c.policy = b.policy /\ c.policyDigest = b.policyDigest
            /\ c.receipt = b.receipt /\ c.invalidated = b.invalidated
        BY <3>5 DEF Data
      <4>3. /\ c.quarantined = b.quarantined /\ c.snapshot = b.snapshot
            /\ c.clash = b.clash
        BY <3>5 DEF Data
      <4>4. c.status = b.status /\ c.media = b.media /\ c.retries \in {b.retries, "no"}
        BY <3>5 DEF Data
      <4> QED BY <4>1, <4>2, <4>3, <4>4 DEF AttemptAlone
    <3>7. c \in Data
      BY <3>6 DEF AttemptAlone
    <3> HIDE DEF c
    <3>8. /\ AttemptAlone(c, e) /\ e.status = c.status /\ e.media = c.media
          /\ e.deliveries = rows
      BY <2>2, <3>7 DEF Data, AttemptAlone
    <3>9. AttemptAlone(d, e)
      BY <3>2, <3>4, <3>6, <3>8 DEF AttemptAlone
    <3> QED BY <3>1, <3>2, <3>4, <3>6, <3>8, <3>9
  <2>5. DeliveryIsSound(m)
    BY <2>3, <2>4 DEF DeliveryIsSound, Live
  <2>6. DeliveriesAreRepaired(d) => DeliveriesAreRepaired(m)
    <3>1. DeliveriesAreRepaired(d) => rows = {}
      BY <1>2, <2>3 DEF DeliveriesAreRepaired
    <3> QED BY <2>4, <3>1 DEF DeliveriesAreRepaired, Live
  <2> QED BY <2>1, <2>4, <2>5, <2>6
<1> QED BY <1>1, <1>2

Odd == {"nested", "unknown"}
(* What shows in the rows, while a file is upgraded, that it cannot be.    *)
Kept(version, d, m) ==
  /\ d.media \in Odd \/ m.media \in Odd => m.media = d.media
  /\ version < 5 => m.clash = d.clash
  /\ version < 14 => m.policy = d.policy
  /\ version < 15 => m.receipt = d.receipt

(* v7 and v9 take an invalidation of no day out of the way.                *)
LEMMA Quarantines ==
  ASSUME NEW d \in Data
  PROVE  LET q == Quarantined(d)
         IN  /\ q \in Data
             /\ q.invalidated \in {d.invalidated, "no"} /\ q.invalidated # "no-such-day"
             /\ q.entries = d.entries /\ q.policy = d.policy /\ q.receipt = d.receipt
             /\ q.policyDigest = d.policyDigest /\ q.clash = d.clash
             /\ q.media = d.media /\ q.snapshot = d.snapshot /\ q.retries = d.retries
<1> DEFINE a == [d EXCEPT !.invalidated = "no"]
           b == [a EXCEPT !.quarantined = TRUE]
<1>1. /\ a \in Data /\ a.invalidated = "no"
      /\ a.entries = d.entries /\ a.policy = d.policy /\ a.receipt = d.receipt
      /\ a.policyDigest = d.policyDigest /\ a.clash = d.clash
      /\ a.media = d.media /\ a.snapshot = d.snapshot /\ a.retries = d.retries
  BY DEF Data
<1>2. Quarantined(d) = IF d.invalidated # "no-such-day" THEN d ELSE b
  BY DEF Quarantined, Data
<1> HIDE DEF a
<1>3. /\ b \in Data /\ b.invalidated = a.invalidated
      /\ b.entries = a.entries /\ b.policy = a.policy /\ b.receipt = a.receipt
      /\ b.policyDigest = a.policyDigest /\ b.clash = a.clash
      /\ b.media = a.media /\ b.snapshot = a.snapshot /\ b.retries = a.retries
  BY <1>1 DEF Data
<1> HIDE DEF b
<1> QED BY <1>1, <1>2, <1>3

LEMMA Migrates ==
  ASSUME NEW v \in 0..22, NEW d \in Data, LeftBy(v, d), ~Refuses(d, v + 1)
  PROVE  LET m == Migrated(d, v + 1)
         IN  m \in Data /\ LeftBy(v + 1, m) /\ Kept(v + 1, d, m)
<1> DEFINE m == Migrated(d, v + 1)
<1>1. CASE v + 1 \in {1, 2, 3, 4, 5, 8, 10, 17, 23}
  <2>1. m = d
    BY <1>1 DEF Migrated
  <2>2. v + 1 = 5 => ~d.clash
    BY DEF Refuses, ConstraintsHold
  <2>3. LeftBy(v + 1, d)
    <3>1. v + 1 >= 5 => ~d.clash
      BY <2>2 DEF LeftBy
    <3>2. /\ v + 1 >= 6 => v >= 6
          /\ v + 1 >= 7 => v >= 7
          /\ v + 1 >= 9 => v >= 9
          /\ v + 1 >= 11 => v >= 11
          /\ v + 1 >= 13 => v >= 13
          /\ v + 1 >= 14 => v >= 14
          /\ v + 1 >= 15 => v >= 15
          /\ v + 1 >= 18 => v >= 18
          /\ v + 1 >= 20 => v >= 20
          /\ v + 1 >= 21 => v >= 21
          /\ v + 1 >= 22 => v >= 22
      BY <1>1
    <3> QED BY <3>1, <3>2 DEF LeftBy
  <2> QED BY <2>1, <2>3 DEF Kept
<1>2. CASE v + 1 = 6
  <2>1. m = [d EXCEPT !.invalidated = IF d.invalidated = "garbled" THEN "sound"
                                      ELSE d.invalidated]
    BY <1>2 DEF Migrated, Redated
  <2>2. m \in Data /\ m.invalidated # "garbled" /\ v = 5
    BY <1>2, <2>1 DEF Data
  <2>3. LeftBy(v + 1, m)
    BY <2>1, <2>2 DEF LeftBy, Data
  <2> QED BY <1>2, <2>1, <2>2, <2>3 DEF Kept, Data
<1>3. CASE v + 1 = 7
  <2> DEFINE q == Quarantined(d)
  <2>1. q \in Data /\ q.invalidated # "garbled"
    BY <1>3, Quarantines DEF LeftBy
  <2>2. /\ q.entries = d.entries /\ q.policy = d.policy /\ q.receipt = d.receipt
        /\ q.policyDigest = d.policyDigest /\ q.clash = d.clash /\ q.media = d.media
    BY Quarantines
  <2>3. m = [q EXCEPT !.snapshot = FALSE]
    BY <1>3 DEF Migrated, CandidateWithoutSnapshot
  <2> HIDE DEF q
  <2>6. m \in Data
    BY <2>1, <2>3, ZenonT(60) DEF Data
  <2>4. /\ ~m.snapshot /\ m.invalidated # "garbled" /\ v = 6
        /\ m.entries = q.entries /\ m.policy = q.policy /\ m.receipt = q.receipt
        /\ m.policyDigest = q.policyDigest /\ m.clash = q.clash /\ m.media = q.media
    BY <1>3, <2>1, <2>3 DEF Data
  <2> HIDE DEF m
  <2>5. LeftBy(v + 1, m)
    BY <2>2, <2>4 DEF LeftBy
  <2> QED BY <2>2, <2>4, <2>5, <2>6 DEF Kept, m
<1>4. CASE v + 1 = 9
  <2> DEFINE q == Quarantined(d)
  <2>1. q \in Data /\ q.invalidated \notin {"garbled", "no-such-day"}
    BY <1>4, Quarantines DEF LeftBy
  <2>2. /\ q.entries = d.entries /\ q.policy = d.policy /\ q.receipt = d.receipt
        /\ q.policyDigest = d.policyDigest /\ q.clash = d.clash /\ q.media = d.media
        /\ q.snapshot = d.snapshot
    BY Quarantines
  <2>3. m = [q EXCEPT !.retries = IF q.retries = "unsound" THEN "no" ELSE q.retries]
    BY <1>4 DEF Migrated, CountedRetries
  <2> HIDE DEF q
  <2>4. /\ m \in Data /\ m.invalidated = q.invalidated /\ m.retries # "unsound" /\ v = 8
        /\ m.entries = q.entries /\ m.policy = q.policy /\ m.receipt = q.receipt
        /\ m.policyDigest = q.policyDigest /\ m.clash = q.clash /\ m.media = q.media
        /\ m.snapshot = q.snapshot
    BY <1>4, <2>1, <2>3 DEF Data
  <2> HIDE DEF m
  <2>5. LeftBy(v + 1, m)
    BY <2>1, <2>2, <2>4 DEF LeftBy
  <2> QED BY <2>2, <2>4, <2>5 DEF Kept, m
<1>5. CASE v + 1 \in {11, 12, 13}
  <2>1. v \in 5..22 /\ (v >= 11 => d.media # "four")
    BY <1>5 DEF LeftBy
  <2>2. /\ d.media = "no" \/ d.media \in Predecessors \cup {"four"}
        /\ v + 1 \in {12, 13} => d.media = "no" \/ d.media \in Predecessors
    BY <1>5 DEF Refuses, Recognized, Uploaded
  <2>3. AttemptAlone(d, m) /\ m.media # "four"
        /\ (v + 1 = 13 => m.media \in {"no", "six"})
        /\ m.media \notin Odd /\ d.media \notin Odd
    <3>1. CASE v + 1 = 11
      <4>1. m = [d EXCEPT !.media = IF d.media = "four" THEN "six" ELSE d.media]
        BY <3>1 DEF Migrated, TransitionAdded
      <4> QED BY <2>2, <3>1, <4>1 DEF Data, AttemptAlone, Odd, Predecessors
    <3>2. CASE v + 1 \in {12, 13}
      <4>1. m = [d EXCEPT !.media = IF Uploaded(d) THEN "six" ELSE d.media]
        BY <3>2 DEF Migrated, SixFields
      <4> QED BY <2>2, <3>2, <4>1 DEF Data, AttemptAlone, Odd, Predecessors, Uploaded
    <3> QED BY <1>5, <3>1, <3>2
  <2> HIDE DEF m
  <2>4. LeftBy(v + 1, m)
    BY <1>5, <2>1, <2>3, AttemptMigrates
  <2> QED BY <1>5, <2>3, <2>4 DEF AttemptAlone, Kept, m
<1>6. CASE v + 1 = 14
  <2>1. d.policy = "no" \/ d.receipt = "current"
    BY <1>6 DEF Refuses
  <2>2. m = [d EXCEPT !.policy = IF d.policy = "no" THEN d.policy ELSE "bound"]
    BY <1>6 DEF Migrated, WorkspaceBound
  <2>3. /\ m \in Data /\ m.policy # "unbound" /\ v = 13
        /\ m.policy # "no" => d.policy # "no"
        /\ m.entries = d.entries /\ m.receipt = d.receipt /\ m.media = d.media
        /\ m.policyDigest = d.policyDigest /\ m.clash = d.clash
        /\ m.invalidated = d.invalidated /\ m.snapshot = d.snapshot
        /\ m.retries = d.retries
    BY <1>6, <2>2 DEF Data
  <2> HIDE DEF m
  <2>4. LeftBy(v + 1, m)
    BY <2>3 DEF LeftBy
  <2> QED BY <2>3, <2>4 DEF Kept, m
<1>7. CASE v + 1 = 15
  <2>1. d.receipt # "corrupt" /\ v = 14
    BY <1>7 DEF Refuses
  <2>2. m = IF d.receipt # "predecessor" THEN d
            ELSE [d EXCEPT !.receipt = "current", !.policyDigest = "current"]
    BY <1>7 DEF Migrated, EvidenceAdded
  <2> DEFINE a == [d EXCEPT !.receipt = "current"]
             b == [a EXCEPT !.policyDigest = "current"]
  <2>6. /\ a \in Data /\ a.receipt = "current" /\ a.policy = d.policy
        /\ a.entries = d.entries /\ a.media = d.media /\ a.clash = d.clash
        /\ a.invalidated = d.invalidated /\ a.snapshot = d.snapshot
        /\ a.retries = d.retries
    BY DEF Data
  <2>7. m = IF d.receipt # "predecessor" THEN d ELSE b
    BY <2>2 DEF Data
  <2> HIDE DEF a
  <2>8. /\ b \in Data /\ b.receipt = "current" /\ b.policyDigest = "current"
        /\ b.policy = a.policy
        /\ b.entries = a.entries /\ b.media = a.media /\ b.clash = a.clash
        /\ b.invalidated = a.invalidated /\ b.snapshot = a.snapshot
        /\ b.retries = a.retries
    BY <2>6 DEF Data
  <2> HIDE DEF b
  <2>9. d.receipt \in {"no", "predecessor", "current", "corrupt"}
    BY DEF Data
  <2>10. d.policy # "no" => d.receipt # "no" /\ d.policyDigest = d.receipt
    BY DEF LeftBy
  <2> HIDE DEF m
  <2>3. m \in Data /\ m.receipt \in {"no", "current"}
    BY <2>1, <2>7, <2>8, <2>9
  <2>4. /\ m.policy = d.policy
        /\ m.policy # "no" => m.receipt # "no" /\ m.policyDigest = m.receipt
        /\ m.entries = d.entries /\ m.media = d.media /\ m.clash = d.clash
        /\ m.invalidated = d.invalidated /\ m.snapshot = d.snapshot
        /\ m.retries = d.retries
    BY <2>6, <2>7, <2>8, <2>10
  <2>5. LeftBy(v + 1, m)
    BY <2>1, <2>3, <2>4 DEF LeftBy
  <2> QED BY <2>1, <2>3, <2>4, <2>5 DEF Kept, m
<1>8. CASE v + 1 = 16
  <2>1. v \in 5..22 /\ d.media \in {"no", "six"}
    BY <1>8 DEF LeftBy
  <2>2. m = IF Live(d) THEN Reset(d) ELSE d
    BY <1>8 DEF Migrated, WithoutContext
  <2>3. AttemptAlone(d, m) /\ m.media \in {"no", "six"}
    BY <2>1, <2>2, ResetsAttempt DEF AttemptAlone
  <2> HIDE DEF m
  <2>4. LeftBy(v + 1, m)
    BY <1>8, <2>1, <2>3, AttemptMigrates
  <2> QED BY <1>8, <2>1, <2>3, <2>4 DEF AttemptAlone, Kept, Odd, m
<1>9. CASE v + 1 = 18
  <2> DEFINE c == CommitOrder(d)
  <2>1. /\ c \in Data /\ RankingIsSound(c) /\ IsFiniteSet(c.entries)
        /\ \A e, f \in c.entries : e.id = f.id => e = f
    BY CommitOrderRanks DEF LeftBy
  <2>2. /\ c.policy = d.policy /\ c.policyDigest = d.policyDigest
        /\ c.receipt = d.receipt /\ c.invalidated = d.invalidated /\ c.clash = d.clash
        /\ c.snapshot = d.snapshot /\ c.retries = d.retries /\ c.media = d.media
    BY DEF CommitOrder, Data
  <2>3. m = Backfilled(c)
    BY <1>9 DEF Migrated
  <2> HIDE DEF c
  <2>4. AttemptAlone(c, m) /\ m.media \in {c.media, "no"}
    BY <2>1, <2>3, BackfillConcernsAttempt
  <2> HIDE DEF m
  <2>5. RankingIsSound(m)
    BY <2>1, <2>4 DEF AttemptAlone, RankingIsSound
  <2>6. v = 17
    BY <1>9
  <2>7. LeftBy(v + 1, m)
    BY <2>1, <2>2, <2>4, <2>5, <2>6 DEF LeftBy, AttemptAlone
  <2>8. m.media \in {"no", "six"} /\ d.media \in {"no", "six"}
    BY <2>2, <2>4, <2>6 DEF LeftBy
  <2> QED BY <2>4, <2>6, <2>7, <2>8 DEF AttemptAlone, Kept, Odd, m
<1>10. CASE v + 1 \in {19, 20}
  <2>1. v \in 5..22 /\ d.media \in {"no", "six"}
    BY <1>10 DEF LeftBy
  <2>2. m = DeliveriesNormalized(d)
    BY <1>10 DEF Migrated
  <2>3. AttemptAlone(d, m) /\ DeliveryIsSound(m) /\ m.media \in {"no", "six"}
    BY <2>1, <2>2, DeliveriesAreNormalized
  <2> HIDE DEF m
  <2>4. LeftBy(v + 1, m)
    BY <1>10, <2>1, <2>3, AttemptMigrates
  <2> QED BY <1>10, <2>1, <2>3, <2>4 DEF AttemptAlone, Kept, Odd, m
<1>11. CASE v + 1 = 21
  <2>1. v \in 5..22 /\ d.media \in {"no", "six"} /\ DeliveryIsSound(d)
    BY <1>11 DEF LeftBy
  <2>2. m = TerminalSettled(d)
    BY <1>11 DEF Migrated
  <2>3. /\ AttemptAlone(d, m) /\ DeliveryIsSound(m) /\ m.media \in {"no", "six"}
        /\ m.life = "active" /\ OwnResult(m) => m.status = "terminal"
    BY <2>1, <2>2, TerminalIsSettled
  <2> HIDE DEF m
  <2>4. LeftBy(v + 1, m)
    BY <1>11, <2>1, <2>3, AttemptMigrates
  <2> QED BY <1>11, <2>1, <2>3, <2>4 DEF AttemptAlone, Kept, Odd, m
<1>12. CASE v + 1 = 22
  <2>1. m = IF d.quarantined THEN [d EXCEPT !.invalidated = "no"] ELSE d
    BY <1>12 DEF Migrated, QuarantineWins
  <2>2. /\ m \in Data
        /\ m.quarantined => m.invalidated = "no"
        /\ m.invalidated \in {d.invalidated, "no"} /\ v = 21
    BY <1>12, <2>1 DEF Data
  <2>3. /\ m.entries = d.entries /\ m.clock = d.clock /\ m.policy = d.policy
        /\ m.policyDigest = d.policyDigest /\ m.receipt = d.receipt
        /\ m.media = d.media /\ m.retries = d.retries
    BY <2>1 DEF Data
  <2>4. /\ m.life = d.life /\ m.status = d.status /\ m.context = d.context
        /\ m.facts = d.facts /\ m.generation = d.generation
        /\ m.deliveries = d.deliveries /\ m.result = d.result
    BY <2>1 DEF Data
  <2>5. m.clash = d.clash /\ m.snapshot = d.snapshot
    BY <2>1 DEF Data
  <2>6. DeliveryIsSound(d) => DeliveryIsSound(m)
    BY <2>3, <2>4 DEF DeliveryIsSound, Live, ContextIsExact, Agrees, Uploaded
  <2>7. RankingIsSound(d) => RankingIsSound(m)
    BY <2>3 DEF RankingIsSound
  <2> HIDE DEF m
  <2>8. LeftBy(v + 1, m)
    BY <2>2, <2>3, <2>4, <2>5, <2>6, <2>7 DEF LeftBy, OwnResult
  <2> QED BY <2>2, <2>3, <2>8 DEF Kept, m
<1> QED BY <1>1, <1>2, <1>3, <1>4, <1>5, <1>6, <1>7, <1>8, <1>9, <1>10, <1>11, <1>12

(* What v18 and v20 put right, and the migrations after them keep so.      *)
Repairs(version, d, m) ==
  /\ version = 18 \/ RankedInOrder(d) => RankedInOrder(m)
  /\ version = 20 \/ (version > 20 /\ DeliveriesAreRepaired(d)) => DeliveriesAreRepaired(m)

LEMMA MigrationRepairs ==
  ASSUME NEW v \in 17..22, NEW d \in Data, LeftBy(v, d)
  PROVE  Repairs(v + 1, d, Migrated(d, v + 1))
<1> DEFINE m == Migrated(d, v + 1)
<1>a. d.media \in {"no", "six"} /\ (v >= 20 => DeliveryIsSound(d))
  BY DEF LeftBy
<1>b. ASSUME NEW c, AttemptAlone(c, m)
      PROVE  RankedInOrder(c) => RankedInOrder(m)
  BY <1>b DEF AttemptAlone, RankedInOrder
<1>1. CASE v + 1 = 18
  <2>1. CommitOrder(d) \in Data /\ RankedInOrder(CommitOrder(d))
    BY CommitOrderRanks DEF LeftBy
  <2>2. m = Backfilled(CommitOrder(d))
    BY <1>1 DEF Migrated
  <2>3. AttemptAlone(CommitOrder(d), m)
    BY <2>1, <2>2, BackfillConcernsAttempt
  <2>4. RankedInOrder(m)
    BY <1>b, <2>1, <2>3
  <2> QED BY <1>1, <2>4 DEF Repairs
<1>2. CASE v + 1 \in {19, 20}
  <2>1. m = DeliveriesNormalized(d)
    BY <1>2 DEF Migrated
  <2>2. AttemptAlone(d, m) /\ DeliveriesAreRepaired(m)
    BY <1>a, <2>1, DeliveriesAreNormalized
  <2>3. RankedInOrder(d) => RankedInOrder(m)
    BY <1>b, <2>2
  <2> QED BY <1>2, <2>2, <2>3 DEF Repairs
<1>3. CASE v + 1 = 21
  <2>1. m = TerminalSettled(d) /\ DeliveryIsSound(d)
    BY <1>3, <1>a DEF Migrated
  <2>2. AttemptAlone(d, m) /\ (DeliveriesAreRepaired(d) => DeliveriesAreRepaired(m))
    BY <1>a, <2>1, TerminalIsSettled
  <2>3. RankedInOrder(d) => RankedInOrder(m)
    BY <1>b, <2>2
  <2> QED BY <1>3, <2>2, <2>3 DEF Repairs
<1>4. CASE v + 1 = 22
  <2>1. m = IF d.quarantined THEN [d EXCEPT !.invalidated = "no"] ELSE d
    BY <1>4 DEF Migrated, QuarantineWins
  <2>2. /\ m.entries = d.entries /\ m.clock = d.clock
        /\ m.life = d.life /\ m.status = d.status /\ m.facts = d.facts
        /\ m.deliveries = d.deliveries
    BY <2>1 DEF Data
  <2>3. RankedInOrder(d) => RankedInOrder(m)
    BY <2>2 DEF RankedInOrder
  <2>4. DeliveriesAreRepaired(d) => DeliveriesAreRepaired(m)
    BY <2>2 DEF DeliveriesAreRepaired, Live, Owned
  <2> QED BY <1>4, <2>3, <2>4 DEF Repairs
<1>5. CASE v + 1 = 23
  <2>1. m = d
    BY <1>5 DEF Migrated
  <2> QED BY <1>5, <2>1 DEF Repairs
<1> QED BY <1>1, <1>2, <1>3, <1>4, <1>5

-----------------------------------------------------------------------------
(* A file is upgraded in a transaction of one process.                     *)

Places == {"closed", "bootstrap", "connected", "checked", "migrating", "open",
           "refused", "busy"}
UpgradeTypes ==
  /\ file \in Files /\ draft \in Files
  /\ opener \in [Openers -> Places] /\ lock \in Openers \cup {Nobody}

(* What the transaction has written goes back to what is committed: the    *)
(* reasons for which a file is refused are still there, and the versions   *)
(* that would have refused it are not behind.  What v18 and v20 repair is  *)
(* repaired once they are.                                                 *)
Drafted(f, g) ==
  /\ g.ledger = "sound" /\ g.applied <= Latest /\ g.wal = f.wal
  /\ f.applied <= g.applied
  /\ g.data.media \in Odd \/ f.data.media \in Odd => g.data.media = f.data.media
  /\ g.applied < 5 => g.data.clash = f.data.clash
  /\ g.applied < 14 => g.data.policy = f.data.policy
  /\ g.applied < 15 => g.data.receipt = f.data.receipt
  /\ f.applied < 5 /\ f.data.clash => g.applied < 5
  /\ f.applied < 14 /\ BeforeItsUpgrade(f.data) => g.applied < 14
  /\ f.applied < 15 /\ f.data.receipt = "corrupt" => g.applied < 15
  /\ f.applied < 18 /\ g.applied >= 18 => RankedInOrder(g.data)
  /\ f.applied < 20 /\ g.applied >= 20 => DeliveriesAreRepaired(g.data)

FileIsSound == ValidStartup(file) => SoundFile(file)
LockIsHeld == \A o \in Openers : opener[o] = "migrating" <=> lock = o
DraftIsFile == lock = Nobody => draft = file
DraftIsSound == lock # Nobody => ValidStartup(file) /\ SoundFile(draft) /\ Drafted(file, draft)
OpenersKnow ==
  \A o \in Openers :
    /\ opener[o] \in {"connected", "checked", "migrating", "open"} => file.wal
    /\ opener[o] = "open" => ValidStartup(file) /\ file.applied = Latest /\ file.user = Latest
    /\ opener[o] = "refused" => Unreadable(file)

UpgradeInv ==
  UpgradeTypes /\ FileIsSound /\ LockIsHeld /\ DraftIsFile /\ DraftIsSound /\ OpenersKnow

(* Why a migration refuses is a reason the committed file has.             *)
LEMMA RefusedIsUnreadable ==
  ASSUME NEW f \in Files, NEW g \in Files, ValidStartup(f), SoundFile(g), Drafted(f, g),
         g.applied < Latest, Refuses(g.data, NextVersion(g))
  PROVE  Unreadable(f)
<1> DEFINE v == NextVersion(g)
<1>1. f.applied \in Nat /\ g.applied \in Nat /\ v = g.applied + 1 /\ f.applied <= g.applied
  BY DEF Files, NextVersion, Drafted
<1>2. g.data \in Data /\ f.data \in Data /\ LeftBy(g.applied, g.data)
  BY DEF Files, SoundFile
<1> HIDE DEF v
<1>3. v \in {5, 11, 12, 13, 14, 15, 18}
  BY DEF Refuses, v
<1>4. CASE v = 5
  <2>1. g.data.clash
    BY <1>4 DEF Refuses, ConstraintsHold, v
  <2>2. g.applied < 5 /\ f.applied < 5
    BY <1>1, <1>4
  <2> QED BY <2>1, <2>2 DEF Drafted, Unreadable, ConstraintsHold
<1>5. CASE v \in {11, 12, 13}
  <2>1. v = 11 => g.data.media \notin Predecessors \cup {"four", "no"}
    BY DEF Refuses, Uploaded, v
  <2>2. v \in {12, 13} => g.data.media \notin Predecessors \cup {"no"}
    BY DEF Refuses, Recognized, Uploaded, v
  <2>3. v \in {12, 13} => g.data.media # "four"
    <3>1. v \in {12, 13} => g.applied >= 11
      BY <1>1
    <3> QED BY <1>2, <3>1 DEF LeftBy
  <2>4. g.data.media \in Odd
    BY <1>2, <1>5, <2>1, <2>2, <2>3 DEF Data, Odd
  <2> QED BY <2>4 DEF Drafted, Unreadable, Odd
<1>6. CASE v = 14
  <2>1. g.data.policy # "no" /\ g.data.receipt # "current"
    BY <1>6 DEF Refuses, v
  <2>2. g.data.receipt \in {"predecessor", "corrupt"}
    BY <1>2, <2>1 DEF Data, LeftBy
  <2>3. g.applied < 14 /\ g.applied < 15 /\ f.applied < 14 /\ f.applied < 15
    BY <1>1, <1>6
  <2> QED BY <2>1, <2>2, <2>3 DEF Drafted, Unreadable, BeforeItsUpgrade
<1>7. CASE v = 15
  <2>1. g.data.receipt = "corrupt"
    BY <1>7 DEF Refuses, v
  <2>2. g.applied < 15 /\ f.applied < 15
    BY <1>1, <1>7
  <2> QED BY <2>1, <2>2 DEF Drafted, Unreadable
<1>8. CASE v = 18
  <2>1. DistinctSequences(CommitOrder(g.data))
    BY <1>2, CommitOrderRanks DEF LeftBy, RankingIsSound, DistinctSequences
  <2> QED BY <1>8, <2>1 DEF Refuses, v
<1> QED BY <1>3, <1>4, <1>5, <1>6, <1>7, <1>8

(* A migration that does not refuse brings the transaction one version on. *)
LEMMA MigrationCarries ==
  ASSUME NEW f \in Files, NEW g \in Files, ValidStartup(f), SoundFile(g), Drafted(f, g),
         g.applied < Latest, ~Refuses(g.data, NextVersion(g)), NEW h,
         h = [g EXCEPT !.data = Migrated(g.data, NextVersion(g)), !.tables = TRUE,
                       !.applied = NextVersion(g), !.user = NextVersion(g)]
  PROVE  h \in Files /\ SoundFile(h) /\ Drafted(f, h)
<1> DEFINE v == g.applied
           m == Migrated(g.data, v + 1)
<1>1. /\ v \in 0..22 /\ NextVersion(g) = v + 1 /\ v + 1 \in Nat /\ f.applied \in Nat
      /\ g.data \in Data /\ LeftBy(v, g.data) /\ f.applied <= v + 1 /\ v + 1 <= Latest
  BY DEF Files, NextVersion, Latest, SoundFile, Drafted
<1>2. m \in Data /\ LeftBy(v + 1, m) /\ Kept(v + 1, g.data, m)
  BY <1>1, Migrates
<1>3. /\ h.data = m /\ h.applied = v + 1 /\ h.ledger = g.ledger /\ h.wal = g.wal
      /\ h \in Files
  BY <1>1, <1>2 DEF Files
<1>4. /\ v + 1 = 5 => ~g.data.clash
      /\ v + 1 = 14 => g.data.policy = "no" \/ g.data.receipt = "current"
      /\ v + 1 = 15 => g.data.receipt # "corrupt"
  BY <1>1 DEF Refuses, ConstraintsHold
<1> HIDE DEF m, v
<1>5. v \in Nat /\ f.applied \in Nat
  BY <1>1
<1>6. SoundFile(h)
  BY <1>2, <1>3 DEF SoundFile, Drafted
<1>7. /\ h.ledger = "sound" /\ h.applied <= Latest /\ h.wal = f.wal
      /\ f.applied <= h.applied
  BY <1>1, <1>3 DEF Drafted
<1>8. h.data.media \in Odd \/ f.data.media \in Odd => h.data.media = f.data.media
  BY <1>2, <1>3 DEF Drafted, Kept
<1>9. /\ g.data.clash = f.data.clash \/ ~(v < 5)
      /\ g.data.policy = f.data.policy \/ ~(v < 14)
      /\ g.data.receipt = f.data.receipt \/ ~(v < 15)
  BY DEF Drafted, v
<1>10. /\ v + 1 < 5 => v < 5
       /\ v + 1 < 14 => v < 14
       /\ v + 1 < 15 => v < 15
       /\ v < 5 => v + 1 < 5 \/ v + 1 = 5
       /\ v < 14 => v + 1 < 14 \/ v + 1 = 14
       /\ v < 15 => v + 1 < 15 \/ v + 1 = 15
       /\ v + 1 = 5 => v < 5
       /\ v + 1 = 14 => v < 14 /\ v < 15
       /\ v + 1 = 15 => v < 15
  BY <1>5
<1>11. /\ h.applied < 5 => h.data.clash = f.data.clash
       /\ h.applied < 14 => h.data.policy = f.data.policy
       /\ h.applied < 15 => h.data.receipt = f.data.receipt
  BY <1>2, <1>3, <1>9, <1>10 DEF Kept
<1>12. f.applied < 5 /\ f.data.clash => h.applied < 5
  BY <1>3, <1>4, <1>9, <1>10 DEF Drafted, v
<1>13. f.applied < 14 /\ BeforeItsUpgrade(f.data) => h.applied < 14
  BY <1>3, <1>4, <1>9, <1>10 DEF Drafted, BeforeItsUpgrade, v
<1>14. f.applied < 15 /\ f.data.receipt = "corrupt" => h.applied < 15
  BY <1>3, <1>4, <1>9, <1>10 DEF Drafted, v
<1>15. v + 1 >= 18 => Repairs(v + 1, g.data, m)
  BY <1>1, MigrationRepairs DEF m
<1>16. /\ v + 1 >= 18 => v + 1 = 18 \/ v >= 18
       /\ v + 1 >= 20 => v + 1 = 20 \/ (v >= 20 /\ v + 1 > 20)
       /\ v + 1 >= 20 => v + 1 >= 18
  BY <1>5
<1>17. f.applied < 18 /\ h.applied >= 18 => RankedInOrder(h.data)
  BY <1>3, <1>15, <1>16 DEF Drafted, Repairs, v
<1>18. f.applied < 20 /\ h.applied >= 20 => DeliveriesAreRepaired(h.data)
  BY <1>3, <1>15, <1>16 DEF Drafted, Repairs, v
<1> QED BY <1>3, <1>6, <1>7, <1>8, <1>11, <1>12, <1>13, <1>14, <1>17, <1>18 DEF Drafted

(* A file that was upgraded could be read.                                 *)
LEMMA UpgradedIsReadable ==
  ASSUME NEW f \in Files, NEW g \in Files, ValidStartup(f), SoundFile(g), Drafted(f, g),
         g.applied = Latest
  PROVE  ~Unreadable(f)
<1>1. ~(g.applied < 5) /\ ~(g.applied < 14) /\ ~(g.applied < 15) /\ g.applied >= 13
  BY DEF Latest
<1>2. g.data.media \in {"no", "six"}
  BY <1>1 DEF SoundFile, LeftBy
<1> QED BY <1>1, <1>2 DEF Unreadable, Drafted, ConstraintsHold, Odd

LEMMA UpgradeStarts == UpgradeInit => UpgradeInv
<1> SUFFICES ASSUME UpgradeInit PROVE UpgradeInv
  OBVIOUS
<1>1. UpgradeTypes
  BY FileAssumption DEF UpgradeInit, UpgradeTypes, Places
<1>2. FileIsSound
  BY FileAssumption DEF UpgradeInit, FileIsSound
<1>3. LockIsHeld /\ DraftIsFile /\ DraftIsSound /\ OpenersKnow
  BY FileAssumption DEF UpgradeInit, LockIsHeld, DraftIsFile, DraftIsSound, OpenersKnow
<1> QED BY <1>1, <1>2, <1>3 DEF UpgradeInv

(* Where a process is opening the file, and nothing is written.            *)
LEMMA OpenerMoves ==
  ASSUME UpgradeInv, NEW o \in Openers, NEW to \in Places \ {"migrating"},
         opener[o] # "migrating", opener' = [opener EXCEPT ![o] = to],
         UNCHANGED <<file, draft, lock>>,
         to \in {"connected", "checked", "open"} => file.wal,
         to # "open",
         to = "refused" => Unreadable(file)
  PROVE  UpgradeInv'
<1>1. UpgradeTypes'
  BY DEF UpgradeInv, UpgradeTypes
<1>2. (FileIsSound /\ DraftIsFile /\ DraftIsSound)'
  BY DEF UpgradeInv, FileIsSound, DraftIsFile, DraftIsSound
<1>3. \A p \in Openers : opener'[p] = IF p = o THEN to ELSE opener[p]
  BY DEF UpgradeInv, UpgradeTypes
<1>4. LockIsHeld'
  BY <1>3 DEF UpgradeInv, LockIsHeld
<1>5. OpenersKnow'
  BY <1>3 DEF UpgradeInv, OpenersKnow
<1> QED BY <1>1, <1>2, <1>4, <1>5 DEF UpgradeInv

LEMMA UpgradeGoesOn == UpgradeInv /\ [UpgradeNext]_disk => UpgradeInv'
<1> SUFFICES ASSUME UpgradeInv, [UpgradeNext]_disk PROVE UpgradeInv'
  OBVIOUS
<1> USE DEF Opening
<1>1. ASSUME UNCHANGED disk PROVE UpgradeInv'
  BY <1>1 DEF disk, UpgradeInv, UpgradeTypes, FileIsSound, LockIsHeld, DraftIsFile,
              DraftIsSound, OpenersKnow
<1>2. file \in Files /\ draft \in Files /\ opener \in [Openers -> Places]
  BY DEF UpgradeInv, UpgradeTypes
<1>3. ASSUME NEW o \in Openers, OpenConnection(o) PROVE UpgradeInv'
  BY <1>3, OpenerMoves DEF OpenConnection, Places
<1>4. ASSUME NEW o \in Openers, BootstrapWal(o) PROVE UpgradeInv'
  <2>1. CASE ~ValidStartup(file)
    <3>1. draft = file
      BY <1>4 DEF BootstrapWal, UpgradeInv, DraftIsFile
    <3> QED BY <1>4, <2>1, <3>1, OpenerMoves DEF BootstrapWal, Places, Unreadable
  <2>2. CASE ValidStartup(file)
    <3>1. /\ lock = Nobody /\ lock' = Nobody /\ opener[o] = "bootstrap"
          /\ opener' = [opener EXCEPT ![o] = "connected"]
          /\ file' = [file EXCEPT !.wal = TRUE] /\ draft' = file'
      BY <1>4, <2>2 DEF BootstrapWal
    <3>2. /\ file' \in Files /\ file'.wal
          /\ file'.data = file.data /\ file'.applied = file.applied
          /\ file'.user = file.user /\ file'.ledger = file.ledger
          /\ file'.tables = file.tables
      BY <1>2, <3>1 DEF Files
    <3>3. /\ ValidStartup(file') <=> ValidStartup(file)
          /\ Unreadable(file') <=> Unreadable(file)
          /\ SoundFile(file') <=> SoundFile(file)
      BY <3>2 DEF ValidStartup, NoLedger, LedgerIsSound, Unreadable, SoundFile
    <3>4. \A p \in Openers : opener'[p] = IF p = o THEN "connected" ELSE opener[p]
      BY <1>2, <3>1
    <3>5. UpgradeTypes'
      BY <1>2, <3>1, <3>2 DEF UpgradeTypes, Places
    <3>6. (FileIsSound /\ DraftIsFile /\ DraftIsSound)'
      BY <3>1, <3>3 DEF UpgradeInv, FileIsSound, DraftIsFile, DraftIsSound
    <3>7. LockIsHeld'
      BY <3>1, <3>4 DEF UpgradeInv, LockIsHeld
    <3>8. OpenersKnow'
      BY <3>2, <3>3, <3>4 DEF UpgradeInv, OpenersKnow
    <3> QED BY <3>5, <3>6, <3>7, <3>8 DEF UpgradeInv
  <2> QED BY <2>1, <2>2
<1>5. ASSUME NEW o \in Openers, CheckBeforeLock(o) PROVE UpgradeInv'
  <2>1. file.wal
    BY <1>5 DEF CheckBeforeLock, UpgradeInv, OpenersKnow
  <2> QED BY <1>5, <2>1, OpenerMoves DEF CheckBeforeLock, Places, Unreadable
<1>6. ASSUME NEW o \in Openers, BeginImmediate(o) PROVE UpgradeInv'
  <2>1. draft = file /\ lock = Nobody /\ opener[o] = "checked" /\ file' = file /\ file.wal
    BY <1>6 DEF BeginImmediate, UpgradeInv, DraftIsFile, OpenersKnow
  <2>2. CASE ~ValidStartup(file)
    BY <1>6, <2>1, <2>2, OpenerMoves DEF BeginImmediate, Places, Unreadable
  <2>3. CASE ValidStartup(file)
    <3>1. /\ lock' = o /\ opener' = [opener EXCEPT ![o] = "migrating"]
          /\ draft' = [file EXCEPT !.ledger = "sound"]
      BY <1>6, <2>3 DEF BeginImmediate
    <3>2. /\ draft' \in Files /\ draft'.data = file.data /\ draft'.ledger = "sound"
          /\ draft'.applied = file.applied /\ draft'.wal = file.wal
      BY <1>2, <3>1 DEF Files
    <3>3. SoundFile(file) /\ file.applied \in Nat /\ file.applied <= Latest
      BY <1>2, <2>3 DEF UpgradeInv, FileIsSound, ValidStartup, NoLedger, LedgerIsSound,
                        SoundFile, Files, Latest
    <3>4. SoundFile(draft')
      BY <3>2, <3>3 DEF SoundFile
    <3>5. Drafted(file, draft')
      BY <3>2, <3>3 DEF Drafted
    <3>6. o # Nobody
      BY FileAssumption
    <3>7. \A p \in Openers : opener'[p] = IF p = o THEN "migrating" ELSE opener[p]
      BY <1>2, <3>1
    <3>8. UpgradeTypes'
      BY <1>2, <2>1, <3>1, <3>2 DEF UpgradeTypes, Places
    <3>9. (FileIsSound /\ DraftIsFile /\ DraftIsSound)'
      BY <2>1, <2>3, <3>1, <3>4, <3>5, <3>6
         DEF UpgradeInv, FileIsSound, DraftIsFile, DraftIsSound
    <3>10. LockIsHeld'
      BY <2>1, <3>1, <3>6, <3>7, FileAssumption DEF UpgradeInv, LockIsHeld
    <3>11. OpenersKnow'
      BY <2>1, <3>7 DEF UpgradeInv, OpenersKnow
    <3> QED BY <3>8, <3>9, <3>10, <3>11 DEF UpgradeInv
  <2> QED BY <2>2, <2>3
<1>7. ASSUME NEW o \in Openers, LockTimesOut(o) PROVE UpgradeInv'
  BY <1>7, OpenerMoves DEF LockTimesOut, Places
<1>8. ASSUME NEW o \in Openers, Migrate(o) PROVE UpgradeInv'
  <2>1. /\ lock = o /\ o # Nobody /\ file' = file /\ draft.applied < Latest
        /\ opener[o] = "migrating" /\ file.wal
        /\ ValidStartup(file) /\ SoundFile(draft) /\ Drafted(file, draft)
    BY <1>8, FileAssumption DEF Migrate, UpgradeInv, LockIsHeld, DraftIsSound, OpenersKnow
  <2>2. CASE Refuses(draft.data, NextVersion(draft))
    <3>1. /\ opener' = [opener EXCEPT ![o] = "refused"] /\ draft' = file /\ lock' = Nobody
      BY <1>8, <2>2 DEF Migrate
    <3>2. Unreadable(file)
      BY <1>2, <2>1, <2>2, RefusedIsUnreadable
    <3>3. \A p \in Openers : opener'[p] = IF p = o THEN "refused" ELSE opener[p]
      BY <1>2, <3>1
    <3>4. UpgradeTypes'
      BY <1>2, <2>1, <3>1 DEF UpgradeTypes, Places
    <3>5. (FileIsSound /\ DraftIsFile /\ DraftIsSound)'
      BY <2>1, <3>1 DEF UpgradeInv, FileIsSound, DraftIsFile, DraftIsSound
    <3>6. LockIsHeld'
      BY <2>1, <3>1, <3>3, FileAssumption DEF UpgradeInv, LockIsHeld
    <3>7. OpenersKnow'
      BY <2>1, <3>2, <3>3 DEF UpgradeInv, OpenersKnow
    <3> QED BY <3>4, <3>5, <3>6, <3>7 DEF UpgradeInv
  <2>3. CASE ~Refuses(draft.data, NextVersion(draft))
    <3>1. /\ opener' = opener /\ lock' = lock
          /\ draft' = [draft EXCEPT !.data = Migrated(draft.data, NextVersion(draft)),
                                    !.tables = TRUE, !.applied = NextVersion(draft),
                                    !.user = NextVersion(draft)]
      BY <1>8, <2>3 DEF Migrate
    <3>2. draft' \in Files /\ SoundFile(draft') /\ Drafted(file, draft')
      BY <1>2, <2>1, <2>3, <3>1, MigrationCarries
    <3>3. UpgradeTypes'
      BY <2>1, <3>1, <3>2 DEF UpgradeInv, UpgradeTypes
    <3>4. (FileIsSound /\ DraftIsFile /\ DraftIsSound)'
      BY <2>1, <3>1, <3>2 DEF UpgradeInv, FileIsSound, DraftIsFile, DraftIsSound
    <3>5. (LockIsHeld /\ OpenersKnow)'
      BY <2>1, <3>1 DEF UpgradeInv, LockIsHeld, OpenersKnow
    <3> QED BY <3>3, <3>4, <3>5 DEF UpgradeInv
  <2> QED BY <2>2, <2>3
<1>9. ASSUME NEW o \in Openers, Commit(o) PROVE UpgradeInv'
  <2>1. /\ opener[o] = "migrating" /\ lock = o /\ o # Nobody /\ draft.applied = Latest
        /\ opener' = [opener EXCEPT ![o] = "open"]
        /\ file' = [draft EXCEPT !.user = Latest] /\ draft' = file' /\ lock' = Nobody
    BY <1>9, FileAssumption DEF Commit, UpgradeInv, LockIsHeld
  <2>2. /\ ValidStartup(file) /\ SoundFile(draft) /\ Drafted(file, draft) /\ file.wal
    BY <2>1 DEF UpgradeInv, DraftIsSound, OpenersKnow
  <2>3. ~Unreadable(file)
    BY <1>2, <2>1, <2>2, UpgradedIsReadable
  <2>4. /\ file' \in Files /\ file'.user = Latest /\ file'.applied = Latest
        /\ file'.ledger = "sound" /\ file'.data = draft.data /\ file'.wal
    BY <1>2, <2>1, <2>2 DEF Files, Latest, Drafted
  <2>5. ValidStartup(file') /\ SoundFile(file')
    BY <2>1, <2>2, <2>4 DEF ValidStartup, NoLedger, LedgerIsSound, SoundFile, Latest
  <2>6. \A p \in Openers : opener'[p] = IF p = o THEN "open" ELSE opener[p]
    BY <1>2, <2>1
  <2>7. UpgradeTypes'
    BY <1>2, <2>1, <2>4 DEF UpgradeTypes, Places
  <2>8. (FileIsSound /\ DraftIsFile /\ DraftIsSound)'
    BY <2>1, <2>5 DEF FileIsSound, DraftIsFile, DraftIsSound
  <2>9. LockIsHeld'
    BY <2>1, <2>6, FileAssumption DEF UpgradeInv, LockIsHeld
  <2>10. OpenersKnow'
    BY <2>3, <2>4, <2>5, <2>6 DEF UpgradeInv, OpenersKnow
  <2> QED BY <2>7, <2>8, <2>9, <2>10 DEF UpgradeInv
<1>10. ASSUME NEW o \in Openers, Stop(o) PROVE UpgradeInv'
  <2>1. \A p \in Openers : opener'[p] = IF p = o THEN "closed" ELSE opener[p]
    BY <1>2, <1>10 DEF Stop
  <2>2. UpgradeTypes'
    BY <1>10 DEF Stop, UpgradeInv, UpgradeTypes, Places
  <2>3. (FileIsSound /\ DraftIsFile /\ DraftIsSound)'
    BY <1>10 DEF Stop, UpgradeInv, FileIsSound, DraftIsFile, DraftIsSound
  <2>4. LockIsHeld'
    BY <1>10, <2>1, FileAssumption DEF Stop, UpgradeInv, LockIsHeld
  <2>5. OpenersKnow'
    BY <1>10, <2>1 DEF Stop, UpgradeInv, OpenersKnow
  <2> QED BY <2>2, <2>3, <2>4, <2>5 DEF UpgradeInv
<1> QED BY <1>1, <1>3, <1>4, <1>5, <1>6, <1>7, <1>8, <1>9, <1>10 DEF UpgradeNext

(* What a file of today's version is known to hold.                        *)
LEMMA UpgradedIsSound == UpgradeInv => UpgradeIsSound
<1> SUFFICES ASSUME UpgradeInv PROVE UpgradeIsSound
  OBVIOUS
<1>1. ASSUME NEW o \in Openers, opener[o] = "open"
      PROVE  /\ file.applied = Latest /\ file.user = Latest /\ file.wal
             /\ DeliveryIsSound(file.data) /\ DocumentsAreSound(file.data)
             /\ PolicyIsSound(file.data) /\ RankingIsSound(file.data)
  <2>1. /\ file.applied = Latest /\ file.user = Latest /\ file.wal /\ file.data \in Data
        /\ LeftBy(file.applied, file.data)
    BY <1>1 DEF UpgradeInv, UpgradeTypes, Files, FileIsSound, SoundFile, OpenersKnow
  <2>2. DeliveryIsSound(file.data) /\ RankingIsSound(file.data)
    BY <2>1 DEF LeftBy, Latest
  <2>3. DocumentsAreSound(file.data)
    BY <2>1 DEF LeftBy, Latest, DocumentsAreSound
  <2>4. PolicyIsSound(file.data)
    BY <2>1 DEF LeftBy, Latest, PolicyIsSound, Data
  <2> QED BY <2>1, <2>2, <2>3, <2>4
<1>2. \A o \in Openers : opener[o] = "refused" => Unreadable(file)
  BY DEF UpgradeInv, OpenersKnow
<1>3. ASSUME draft.applied = Latest
      PROVE  /\ file.applied < 20 => DeliveriesAreRepaired(draft.data)
             /\ file.applied < 18 => RankedInOrder(draft.data)
  <2>1. draft.applied >= 18 /\ draft.applied >= 20
    BY <1>3 DEF Latest
  <2>2. CASE lock = Nobody
    BY <2>1, <2>2 DEF UpgradeInv, UpgradeTypes, Files, DraftIsFile
  <2>3. CASE lock # Nobody
    BY <2>1, <2>3 DEF UpgradeInv, DraftIsSound, Drafted
  <2> QED BY <2>2, <2>3
<1> QED BY <1>1, <1>2, <1>3 DEF UpgradeIsSound

(* A process that gets hold of the database finds the file upgraded to the *)
(* last version and sound in all the program of today reads and keeps,     *)
(* whatever earlier program left it, with unfinished compensations and     *)
(* deleted bytes where it stopped; an upgrade from before version 20       *)
(* commits deliveries that own their bytes and can be claimed, one from    *)
(* before version 18 results numbered in the order of their time; and a    *)
(* file is refused only for a reason that it holds, however many processes *)
(* open it and wherever they stop.                                         *)
THEOREM UpgradeSound == StoreSpec => []UpgradeIsSound
<1>1. StoreInit => UpgradeInv
  BY UpgradeStarts DEF StoreInit
<1>2. UpgradeInv /\ [StoreNext]_<<vars, disk>> => UpgradeInv'
  BY UpgradeGoesOn DEF StoreNext, SessionStep, UpgradeStep
<1> QED BY <1>1, <1>2, UpgradedIsSound, PTL DEF StoreSpec
=============================================================================
