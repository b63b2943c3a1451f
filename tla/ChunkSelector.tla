---------------------------- MODULE ChunkSelector ----------------------------
(***************************************************************************)
(* ChunkSelector and the loop of run_test that asks it for chunk sizes to  *)
(* test: phase 1 explores the neighbors of the eligible chunk sizes, phase *)
(* 2 tests those that are left again, round after round, and discards the  *)
(* slow ones with a tolerance that becomes smaller.  Under a time limit    *)
(* each level of mode 0 has a deadline, at which the selector drops the    *)
(* round it is in and goes on with the next level.                         *)
(*                                                                         *)
(* Speeds are a few numbers, and any test may turn out with any of them.   *)
(* Time is the number of deadlines that have passed.  Scores, which the    *)
(* code computes again before each use, are taken from the speeds; their   *)
(* rounding to a millionth is left out, tolerances are percentages.        *)
(***************************************************************************)
EXTENDS Integers, Sequences, FiniteSetsExt, SequencesExt, Orders

CONSTANTS
    Options,                   \* the option records to explore
    initial_mandatory_chunks,
    maxNumChunksTestAllowed,
    initTolerance, finalTolerance,
    Speeds                     \* nodes per second

(* preset is the row of nLevelTestsPresets that subMode selects in mode 0; *)
(* rounds is subMode in the other modes.                                   *)
OptionType ==
    [mode : 0 .. 3, calcMode : 0 .. 2, preset : Seq(Nat \ {0}) \ {<<>>}, rounds : Nat,
     activeTimelimit : BOOLEAN, defaultChunk : Nat]

ASSUME SelectorAssumption ==
    /\ Options \subseteq OptionType
    /\ initial_mandatory_chunks \subseteq Nat \ {0}
    /\ initial_mandatory_chunks # {} /\ IsFiniteSet(initial_mandatory_chunks)
    /\ maxNumChunksTestAllowed \in Nat
    /\ Cardinality(initial_mandatory_chunks) <= maxNumChunksTestAllowed
    /\ initTolerance \in Nat /\ finalTolerance \in Nat
    /\ finalTolerance <= initTolerance /\ initTolerance < 100
    /\ Speeds \subseteq Nat \ {0}

VARIABLES
    opt,              \* what the constructor was given
    pc,               \* where getNextChunk, or its caller, is
    speedArr,         \* eligible chunk -> how often each speed was measured
    historyOfChunks, toCheckChunks, tolerance, phase,
    phase2I, phase2J, actualBlock,
    bestSpeedGlobal,
    checkNo,          \* the chunk under test
    passed            \* the deadlines that have passed; all of them: maxTime

vars == <<opt, pc, speedArr, historyOfChunks, toCheckChunks, tolerance, phase,
          phase2I, phase2J, actualBlock, bestSpeedGlobal, checkNo, passed>>

selectedChunks == DOMAIN speedArr
numToleranceLevels == Len(opt.preset)
AllPassed == numToleranceLevels

ntests(c) == Len(speedArr[c])

(* The chunks from whoNext on, then those before it.                       *)
From(whoNext, S) ==
    Ascending({c \in S : c >= whoNext}) \o Ascending({c \in S : c < whoNext})

---------------------------------------------------------------------------
(* Scores: a fraction <<numerator, denominator>> of a chunk's speeds, which*)
(* are kept in order.                                                      *)

calculateMean(arr) == <<SumFunction(arr), Len(arr)>>

calculateMedian(arr) ==
    LET n == Len(arr)
    IN  IF n % 2 = 1 THEN <<arr[(n + 1) \div 2], 1>>
        ELSE <<arr[n \div 2] + arr[n \div 2 + 1], 2>>

BestSpeed(arr) == arr[Len(arr)]

Scored == {c \in selectedChunks : ntests(c) > 0}

calculateScore ==
    [c \in Scored |-> CASE opt.calcMode = 0 -> calculateMean(speedArr[c])
                        [] opt.calcMode = 1 -> calculateMedian(speedArr[c])
                        [] opt.calcMode = 2 -> <<BestSpeed(speedArr[c]), 1>>]

Lower(a, b) == a[1] * b[2] < b[1] * a[2]

\* the first chunk whose score is the highest, or the lowest
getBestScoredChunk(score) ==
    Min({c \in DOMAIN score : \A d \in DOMAIN score : ~Lower(score[c], score[d])})
getWorstScoredChunk(score) ==
    Min({c \in DOMAIN score : \A d \in DOMAIN score : ~Lower(score[d], score[c])})

(* discardChunks: what is left within a tolerance of the best.             *)
KeptOfWorstVariant(tol) ==
    LET score == calculateScore
        best == score[getBestScoredChunk(score)]
    IN  {c \in selectedChunks : c \in Scored =>
            score[c][1] * best[2] * 100 <= best[1] * score[c][2] * (100 - tol)}

Kept(tol) ==
    LET score == calculateScore
        best == score[getBestScoredChunk(score)]
    IN  {c \in selectedChunks : c \in Scored =>
            score[c][1] * best[2] * 100 >= best[1] * score[c][2] * (100 - tol)}

discardWorstChunk ==
    IF Cardinality(selectedChunks) > 1
    THEN selectedChunks \ {getWorstScoredChunk(calculateScore)}
    ELSE selectedChunks

getLevelTolerance(level, maxLevel) ==
    IF level >= maxLevel THEN finalTolerance
    ELSE (initTolerance * maxLevel - (initTolerance - finalTolerance) * (level + 1)) \div maxLevel

(* addNeighbors: the unexplored neighbors of S, as many as are allowed.    *)
Neighbors(S) ==
    LET around == {c + 1 : c \in S} \cup {c - 1 : c \in S \ {1}}
        new == Ascending(around \ historyOfChunks)
        room == maxNumChunksTestAllowed - Cardinality(historyOfChunks)
    IN  SubSeq(new, 1, Min({Max({room, 0}), Len(new)}))

Restricted(S) == [c \in S |-> speedArr[c]]

---------------------------------------------------------------------------
Init ==
    /\ opt \in Options
    /\ historyOfChunks = initial_mandatory_chunks \cup ({opt.defaultChunk} \ {0})
    /\ speedArr = [c \in historyOfChunks |-> <<>>]
    /\ toCheckChunks = Ascending(historyOfChunks)
    /\ pc = "call"
    /\ tolerance = initTolerance
    /\ phase = 1
    /\ phase2I = 0 /\ phase2J = 0 /\ actualBlock = -1
    /\ bestSpeedGlobal = -1
    /\ checkNo = 0
    /\ passed = 0

(* The first chunk of a queue is popped and returned to the caller.        *)
Return(queue) ==
    /\ checkNo' = Head(queue)
    /\ toCheckChunks' = Tail(queue)
    /\ pc' = "test"

(* getNextChunk begins: the time is read.  The deadlines of levels are     *)
(* those of phase 2.                                                       *)
Clock ==
    /\ passed' \in {n \in passed .. AllPassed :
                       /\ ~opt.activeTimelimit => n = 0
                       /\ opt.mode # 0 \/ phase = 1 => n \in {0, AllPassed}}

(* maxTime is over.                                                        *)
CallTimeout ==
    /\ pc = "call"
    /\ Clock
    /\ passed' = AllPassed
    /\ opt.activeTimelimit
    /\ tolerance' = IF opt.mode \in {0, 1} THEN finalTolerance ELSE tolerance
    /\ speedArr' = IF opt.mode = 3 /\ phase = 2 /\ Scored # {} THEN Restricted(discardWorstChunk)
                                                               ELSE speedArr
    /\ pc' = "finish"
    /\ UNCHANGED <<opt, historyOfChunks, toCheckChunks, phase, phase2I, phase2J,
                   actualBlock, bestSpeedGlobal, checkNo>>

InTime == Clock /\ (opt.activeTimelimit => passed' < AllPassed)

CallQueued ==
    /\ pc = "call" /\ phase = 1
    /\ InTime
    /\ toCheckChunks # <<>>
    /\ Return(toCheckChunks)
    /\ UNCHANGED <<opt, speedArr, historyOfChunks, tolerance, phase, phase2I, phase2J,
                   actualBlock, bestSpeedGlobal>>

(* Phase 1 goes on with the neighbors of what is left, or ends.            *)
CallExplore ==
    LET kept == Kept(tolerance)
        new == Neighbors(kept)
    IN  /\ pc = "call" /\ phase = 1
        /\ InTime
        /\ toCheckChunks = <<>>
        /\ speedArr' = [c \in kept \cup ToSet(new) |->
                           IF c \in kept THEN speedArr[c] ELSE <<>>]
        /\ historyOfChunks' = historyOfChunks \cup ToSet(new)
        /\ IF new # <<>> THEN Return(new) /\ UNCHANGED phase
           ELSE /\ phase' = 2
                /\ pc' = "phase2"
                /\ UNCHANGED <<toCheckChunks, checkNo>>
        /\ UNCHANGED <<opt, tolerance, phase2I, phase2J, actualBlock, bestSpeedGlobal>>

CallPhase2 ==
    /\ pc = "call" /\ phase = 2
    /\ InTime
    /\ pc' = "phase2"
    /\ UNCHANGED <<opt, speedArr, historyOfChunks, toCheckChunks, tolerance, phase,
                   phase2I, phase2J, actualBlock, bestSpeedGlobal, checkNo>>

(* The level under way, if it has a deadline and this one has passed.      *)
LevelIsLate ==
    /\ opt.mode = 0
    /\ actualBlock \in 0 .. numToleranceLevels - 2
    /\ passed > actualBlock

(* One turn of the loop over late levels: the rest of the round is dropped *)
(* and the next level starts, with the chunk whose turn it was.            *)
ResumeKeepingVariant(S) ==
    toCheckChunks \o From(IF toCheckChunks = <<>> THEN -1 ELSE Head(toCheckChunks), S)
ResumeVariant(S) == Ascending(S)
Resume(S) == From(IF toCheckChunks = <<>> THEN -1 ELSE Head(toCheckChunks), S)

SkipLevel ==
    LET kept == Kept(tolerance)
    IN  /\ pc = "phase2"
        /\ LevelIsLate
        /\ speedArr' = Restricted(kept)
        /\ toCheckChunks' = IF Cardinality(kept) > 1 THEN Resume(kept) ELSE <<>>
        /\ phase2J' = 1
        /\ actualBlock' = actualBlock + 1
        /\ phase2I' = actualBlock + 1
        /\ tolerance' = getLevelTolerance(actualBlock + 1, numToleranceLevels)
        /\ UNCHANGED <<opt, pc, historyOfChunks, phase, bestSpeedGlobal, checkNo, passed>>

Phase2Queued ==
    /\ pc = "phase2"
    /\ ~LevelIsLate
    /\ toCheckChunks # <<>>
    /\ Return(toCheckChunks)
    /\ UNCHANGED <<opt, speedArr, historyOfChunks, tolerance, phase, phase2I, phase2J,
                   actualBlock, bestSpeedGlobal, passed>>

(* The next round of a level, or the first of the next one.                *)
AdvanceVariant == IF phase2J + 1 > opt.preset[phase2I + 1] THEN <<phase2I + 1, 0>>
                                                          ELSE <<phase2I, phase2J + 1>>
Advance == IF phase2J + 1 >= opt.preset[phase2I + 1] THEN <<phase2I + 1, 0>>
                                                     ELSE <<phase2I, phase2J + 1>>

(* A round is over in mode 0: the chunks with fewest tests go first.       *)
FewestFirst(S) ==
    LET fewest == Min({ntests(c) : c \in S})
    IN  From(Min({c \in S : ntests(c) = fewest}), S)

Phase2Round ==
    LET kept == Kept(tolerance)
    IN  /\ pc = "phase2" /\ opt.mode = 0
        /\ ~LevelIsLate
        /\ toCheckChunks = <<>>
        /\ speedArr' = Restricted(kept)
        /\ IF Cardinality(kept) > 1 /\ phase2I < numToleranceLevels
           THEN /\ tolerance' = getLevelTolerance(phase2I, numToleranceLevels)
                /\ Return(FewestFirst(kept))
                /\ actualBlock' = phase2I
                /\ phase2I' = Advance[1]
                /\ phase2J' = Advance[2]
           ELSE /\ pc' = "finish"
                /\ UNCHANGED <<tolerance, checkNo, toCheckChunks, actualBlock, phase2I, phase2J>>
        /\ UNCHANGED <<opt, historyOfChunks, phase, bestSpeedGlobal, passed>>

(* A round is over in the modes with a fixed number of them.               *)
Left ==
    CASE opt.mode = 1 -> Kept(tolerance)
      [] opt.mode = 2 -> selectedChunks
      [] opt.mode = 3 -> discardWorstChunk

FixedRound ==
    /\ pc = "phase2" /\ opt.mode # 0
    /\ toCheckChunks = <<>>
    /\ speedArr' = Restricted(Left)
    /\ tolerance' = IF opt.mode = 1 THEN getLevelTolerance(phase2I, opt.rounds) ELSE tolerance
    /\ IF Cardinality(Left) > 1 /\ phase2I < opt.rounds
       THEN /\ Return(Ascending(Left))
            /\ phase2I' = phase2I + 1
       ELSE /\ pc' = "finish"
            /\ UNCHANGED <<checkNo, toCheckChunks, phase2I>>
    /\ UNCHANGED <<opt, historyOfChunks, phase, phase2J, actualBlock, bestSpeedGlobal, passed>>

(* -1 is returned, after a last look at the scores.                        *)
Finish ==
    /\ pc = "finish"
    /\ speedArr' = IF opt.mode \in {0, 1} /\ Scored # {} THEN Restricted(Kept(tolerance))
                                                         ELSE speedArr
    /\ pc' = "done"
    /\ UNCHANGED <<opt, historyOfChunks, toCheckChunks, tolerance, phase, phase2I,
                   phase2J, actualBlock, bestSpeedGlobal, checkNo, passed>>

Inserted(s, arr) == InsertAt(arr, Min({i \in DOMAIN arr : arr[i] > s} \cup {Len(arr) + 1}), s)

(* setChunkSpeed; a chunk that has been discarded would be in the map again*)
setChunkSpeed(s) ==
    /\ pc = "test"
    /\ speedArr' = [c \in selectedChunks \cup {checkNo} |->
                       LET was == IF c \in selectedChunks THEN speedArr[c] ELSE <<>>
                       IN  IF c = checkNo THEN Inserted(s, was) ELSE was]
    /\ bestSpeedGlobal' = Max({bestSpeedGlobal, s})
    /\ pc' = "call"
    /\ UNCHANGED <<opt, historyOfChunks, toCheckChunks, tolerance, phase, phase2I,
                   phase2J, actualBlock, checkNo, passed>>

(* The caller gives up when no test of the chunk has succeeded.            *)
TestFails ==
    /\ pc = "test"
    /\ pc' = "failed"
    /\ UNCHANGED <<opt, speedArr, historyOfChunks, toCheckChunks, tolerance, phase,
                   phase2I, phase2J, actualBlock, bestSpeedGlobal, checkNo, passed>>

Step ==
    \/ CallTimeout \/ CallQueued \/ CallExplore \/ CallPhase2
    \/ SkipLevel \/ Phase2Queued \/ Phase2Round \/ FixedRound \/ Finish
    \/ TestFails \/ \E s \in Speeds : setChunkSpeed(s)

Over == pc \in {"done", "failed"} /\ UNCHANGED vars

Next == Step \/ Over

Spec == Init /\ [][Next]_vars

---------------------------------------------------------------------------
(* Only eligible chunks wait for a test, each at most once, also after the *)
(* rest of a round has been dropped: getNextChunk discards chunks while    *)
(* others wait, and setChunkSpeed would bring a discarded chunk back.      *)
QueueSound ==
    /\ IsInjective(toCheckChunks)
    /\ pc \in {"call", "phase2", "test"} => ToSet(toCheckChunks) \subseteq selectedChunks
    /\ pc = "test" => checkNo \in selectedChunks \ ToSet(toCheckChunks)

(* Eligible chunks are compared after as many tests each, give or take one,*)
(* even though a round is abandoned in the middle when its level is late:  *)
(* whoNext in getNextChunk_m0.  Only a later level that is late just when a*)
(* round is over adds one to that: it starts with the smallest chunk, not  *)
(* with the one whose turn it is.                                          *)
TestsEven == \A c, d \in selectedChunks : ntests(c) <= ntests(d) + Max({1, passed})

(* Who is left at the end has had the rounds the options promise.  A level *)
(* that is entered because the one before was late may have one round more *)
(* than its preset.                                                        *)
Promised(late) ==
    IF opt.mode # 0 THEN opt.rounds
    ELSE SumFunction([l \in DOMAIN opt.preset |->
                         IF late /\ l > 1 THEN Max({2, opt.preset[l]}) ELSE opt.preset[l]])

RoundsPromised ==
    /\ \A c \in selectedChunks : ntests(c) <= 1 + Promised(passed > 0)
    /\ pc = "done" /\ passed = 0 /\ Cardinality(selectedChunks) > 1 =>
          \A c \in selectedChunks : ntests(c) = 1 + Promised(FALSE)

(* With calcMode 2 scores are relative to bestSpeedGlobal: an eligible     *)
(* chunk has that speed, whatever has been discarded.                      *)
BestSurvives ==
    opt.calcMode = 2 /\ bestSpeedGlobal > 0 =>
        \E c \in Scored : BestSpeed(speedArr[c]) = bestSpeedGlobal
=============================================================================
