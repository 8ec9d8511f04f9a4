---------------------------- MODULE Leaderboard ----------------------------
(***************************************************************************)
(* Leaderboard entries, the frozen ranks they are published with, and the  *)
(* live list that the ranking screen reads page by page.                   *)
(*                                                                         *)
(* A cursor carries the instant of the first page, the commit sequence of  *)
(* that instant and the last row shown, sealed with a key that a process   *)
(* makes when it starts; the server keeps nothing of it.                   *)
(***************************************************************************)
EXTENDS CompetitivePolicy, SequencesExt

CONSTANTS
  Attempts,   \* attempts, numbered in the order of their ids
  PageLimit   \* limit of the client's requests

ASSUME LeaderboardAssumption ==
  Attempts \subseteq Nat /\ PageLimit \in Nat \ {0}

VARIABLES
  board,     \* leaderboard_entries
  sequence,  \* leaderboard_commit_clock
  reader     \* LiveLeaderboard: its rows, its cursor and its request

boardVars == <<board, sequence>>

Entries ==
  [attempt : Attempts, score : 0..100, completedAt : 0..LastInstant,
   createdAt : 0..LastInstant, sequence : 1..Cardinality(Attempts)]
Cursors ==
  [opens : BOOLEAN, calculatedAt : 0..LastInstant,
   snapshotSequence : 0..Cardinality(Attempts), last : Entries]

(* The cursor it holds, if any; the request it waits for, by the cursor    *)
(* sent with it; the rows shown, and the whole list as it was when the     *)
(* first of them were read.                                                *)
Opened == [cursor |-> {}, asked |-> {}, shown |-> <<>>, cohort |-> {}]

LeaderboardTypeOK ==
  /\ board \subseteq Entries /\ sequence \in 0..Cardinality(Attempts)
  /\ \A sent \in reader.asked \cup {reader.cursor} : sent \subseteq Cursors
  /\ reader.shown \in Seq(Entries) /\ reader.cohort \subseteq Entries

LeaderboardInit == board = {} /\ sequence = 0 /\ reader = Opened

-----------------------------------------------------------------------------
(* Ranks.                                                                  *)

(* compareRankableResults, and the order a cursor resumes in.              *)
Precedes(e, f) ==
  \/ e.score > f.score
  \/ e.score = f.score /\ e.completedAt < f.completedAt
  \/ e.score = f.score /\ e.completedAt = f.completedAt /\ e.attempt < f.attempt

(* In order: row i is the one that i - 1 others precede.                   *)
Ranked(cohort) ==
  [i \in 1..Cardinality(cohort) |->
     CHOOSE e \in cohort : Cardinality({f \in cohort : Precedes(f, e)}) = i - 1]
RankIn(cohort, e) == 1 + Cardinality({f \in cohort : f.score > e.score})

(* calculateFrozenWallPassSnapshot, percentages in hundredths.             *)
Snapshot(cohort, e) ==
  LET n == Cardinality(cohort)
      below == Cardinality({f \in cohort : f.score <= e.score})
      percentile == (20000 * below + n) \div (2 * n)
  IN [rank |-> RankIn(cohort, e), cohortSize |-> n,
      percentile |-> percentile, topPercent |-> 10000 - percentile]

(* The leaderboard part of finalizeTerminalResult; entries of attempts     *)
(* that were deleted since are gone with them.                             *)
Published(a, score, completedAt) ==
  [attempt |-> a, score |-> score, completedAt |-> completedAt,
   createdAt |-> clock, sequence |-> sequence + 1]
Publish(a, score, completedAt) ==
  /\ board' = board \cup {Published(a, score, completedAt)}
  /\ sequence' = sequence + 1
Retract(a) ==
  /\ board' = {e \in board : e.attempt # a}
  /\ UNCHANGED sequence

-----------------------------------------------------------------------------
(* listLiveLeaderboard.  An entry goes in the transaction that deletes its *)
(* attempt, so the join with attempts is left out.                         *)

SequenceAt(instant) ==
  Max({0} \cup {e.sequence : e \in {f \in board : f.createdAt <= instant}})

(* A bug: the cutoff is the completion time alone.                         *)
CohortByTime(cutoff, upTo) == {e \in board : e.completedAt <= cutoff}

Cohort(cutoff, upTo) ==
  {e \in board : e.completedAt <= cutoff /\ e.sequence <= upTo}

(* isAfterLiveLeaderboardCursor *)
Following(cursor, rows) == {e \in rows : Precedes(cursor.last, e)}

(* The first rows, and a cursor of the last of them when there are more.   *)
Page(rows) == SubSeq(Ranked(rows), 1, Min({PageLimit, Cardinality(rows)}))
CursorAfter(rows, calculatedAt, upTo) ==
  IF Cardinality(rows) <= PageLimit THEN {}
  ELSE {[opens |-> TRUE, calculatedAt |-> calculatedAt, snapshotSequence |-> upTo,
         last |-> Ranked(rows)[PageLimit]]}

(* The process is started again: no cursor sealed before opens any more.   *)
Sealed(sent) == {[c EXCEPT !.opens = FALSE] : c \in sent}
ServerRestarts ==
  reader' = [reader EXCEPT !.cursor = Sealed(@),
                           !.asked = {Sealed(sent) : sent \in @}]

-----------------------------------------------------------------------------
(* The ranking screen.                                                     *)

(* load: on opening, on "Atualizar ranking", and on "Carregar mais" when   *)
(* there is a cursor; one request at a time.  A bug: more than one.        *)
AskAgain(sent) ==
  reader' = [reader EXCEPT !.asked = @ \cup {sent}]
Ask(sent) ==
  /\ reader.asked = {}
  /\ reader' = [reader EXCEPT !.asked = {sent}]

ListAnswered ==
  LET rows == Cohort(clock, SequenceAt(clock)) IN
  /\ {} \in reader.asked
  /\ reader' = [cursor |-> CursorAfter(rows, clock, SequenceAt(clock)),
                asked |-> reader.asked \ {{}}, shown |-> Page(rows),
                cohort |-> rows]

MoreAnswered ==
  \E sent \in reader.asked : \E c \in sent :
    LET rows == Following(c, Cohort(c.calculatedAt, c.snapshotSequence)) IN
    /\ c.opens
    /\ reader' = [reader EXCEPT
         !.cursor = CursorAfter(rows, c.calculatedAt, c.snapshotSequence),
         !.asked = @ \ {sent}, !.shown = @ \o Page(rows)]

(* The cursor does not open, or the request fails: what is shown stays.    *)
NotAnswered ==
  \E sent \in reader.asked :
    reader' = [reader EXCEPT !.asked = @ \ {sent}]

(* The screen is left; an answer under way is dropped.                     *)
Leave == reader # Opened /\ reader' = Opened

ReaderNext ==
  \/ \E sent \in {{}, reader.cursor} : Ask(sent)
  \/ ListAnswered \/ MoreAnswered \/ NotAnswered \/ Leave \/ ServerRestarts

-----------------------------------------------------------------------------
(* What the screen shows is one moment of the board, however it was put    *)
(* together: only rows of the list as it was when the first of them were   *)
(* read, none twice, and, but for rows retracted meanwhile, all of those   *)
(* up to the cursor.  A row that completed before the first page and was   *)
(* committed after it stays out (listLiveLeaderboard, LiveLeaderboard).    *)
PagesShowOneSnapshot ==
  /\ \A i, j \in DOMAIN reader.shown :
       i < j => Precedes(reader.shown[i], reader.shown[j])
  /\ Range(reader.shown) \subseteq reader.cohort
  /\ \A e \in reader.cohort \cap board :
       \/ e \in Range(reader.shown)
       \/ \E c \in reader.cursor : Precedes(c.last, e)
=============================================================================
