----------------------------- MODULE TokenRing -----------------------------
(***************************************************************************)
(* The MPI side of dparallel_stack_recursion.h: the threads of N processes *)
(* ask each other for chunks of work, answer each other between two        *)
(* problems, and find out together that no work is left by passing a token *)
(* round the ring of processes.  The token is WHITE while it counts the    *)
(* messages that carry work, PINK while it counts the other ones ("control"*)
(* messages: requests and refusals), and RED when it tells everybody to    *)
(* leave.                                                                  *)
(*                                                                         *)
(* A stack is abstracted to its two depths, ss_localDepth and              *)
(* ss_sharedDepth: the slots, the locks and the local thieves are the      *)
(* subject of StackRecursion.  The thread policy is AGGRESSIVE with no     *)
(* limit: each thread asks for itself.  ow_request, the handle of an       *)
(* answer that is still being sent, is left out: a thread with a pending   *)
(* one only puts off its next answer.                                      *)
(***************************************************************************)
EXTENDS Integers, FiniteSets, Functions

CONSTANTS
    N,              \* num_total_procs
    T,              \* T[p]: num_total_threads of process p
    ChunkSize,      \* chunkSize
    ChunksToSteal,  \* chunksToSteal: the chunks a work message carries
    First,          \* First[p]: the problems thread 0 of p is given
    Fanout,         \* the numbers of children a problem may have
    MaxProblems,    \* bound: problems created in a run
    MaxRequests     \* bound: MaxRequests[p] work requests of each thread of p

ASSUME RingAssumption ==
    /\ N \in Nat \ {0, 1}
    /\ T \in [0..(N - 1) -> Nat \ {0}]
    /\ ChunkSize \in Nat \ {0}
    /\ ChunksToSteal \in Nat \ {0}
    /\ First \in [0..(N - 1) -> Nat]
    /\ Fanout \subseteq Nat
    /\ MaxProblems \in Nat
    /\ MaxRequests \in [0..(N - 1) -> Nat]

Proc == 0..(N - 1)
Thread(p) == 0..(T[p] - 1)
Worker == UNION {{p} \X Thread(p) : p \in Proc}
Nobody == <<-1, -1>>            \* MPI_REQUEST_NULL, no worker
Closed == <<-2, -2>>            \* the listener has been cancelled
Nothing == -1                   \* no answer on its way
MessageSize == ChunkSize * ChunksToSteal
Leader(p) == <<p, 0>>           \* thread 0, the one that handles the token
Next1(p) == (p + 1) % N

White == "white"
Pink == "pink"
Red == "red"

VARIABLES
    localDepth,     \* localDepth[w]: problems in the local part of w's stack
    sharedDepth,    \* sharedDepth[w]: problems in the part others may take
    created,        \* problems created so far
    processed,      \* problems processed so far
    pc,             \* pc[w]: where the thread is
    resume,         \* resume[w]: where ws_make_progress returns to
    asked,          \* asked[w]: requests w has made
    last_steal,     \* last_steal[w]: the process w asked last
    waiting,        \* waiting[w]: wrout_request, iw_request are pending
    serving,        \* serving[w]: the requester w is about to answer
    taken,          \* taken[w]: problems in w's ow_buff
    wrin,           \* wrin[w]: the requester whose request w's listener matched
    requests,       \* requests sent and not matched: <<requester, process>>
    answer,         \* answer[w]: on its way to w; 0 is a refusal
    my_color,
    chunks_sent, chunks_recvd, ctrl_sent, ctrl_recvd,
    td_token,       \* where the token is, and what it says
    scanned         \* scanned[p]: stacks thread 0 has found empty

workVars == <<localDepth, sharedDepth, created, processed>>
askVars == <<asked, last_steal, waiting>>
netVars == <<wrin, requests, answer>>
countVars == <<chunks_sent, chunks_recvd, ctrl_sent, ctrl_recvd>>
tokenVars == <<my_color, td_token, scanned>>
vars == <<workVars, askVars, netVars, countVars, tokenVars,
          pc, resume, serving, taken>>

Labels == {"work", "search", "getwork", "post", "progress", "take", "send",
           "refuse", "receive", "count", "token", "scan", "visit", "clear",
           "barrier", "ended"}

ss_localFullDepth(w) == localDepth[w] + sharedDepth[w]
Load(p, t) == ss_localFullDepth(<<p, t>>) + taken[<<p, t>>]
Held == [p \in Proc |-> SumFunction([t \in Thread(p) |-> Load(p, t)])]
Flying == [p \in Proc |->
    SumFunction([t \in Thread(p) |->
        IF answer[<<p, t>>] = Nothing THEN 0 ELSE answer[<<p, t>>]])]

Init ==
    /\ localDepth = [w \in Worker |-> IF w[2] = 0 THEN First[w[1]] ELSE 0]
    /\ sharedDepth = [w \in Worker |-> 0]
    /\ created = SumFunction(First)
    /\ processed = 0
    /\ pc = [w \in Worker |-> "work"]
    /\ resume = [w \in Worker |-> "receive"]
    /\ asked = [w \in Worker |-> 0]
    /\ last_steal = [w \in Worker |-> (w[1] + N - 1) % N]
    /\ waiting = [w \in Worker |-> FALSE]
    /\ serving = [w \in Worker |-> Nobody]
    /\ taken = [w \in Worker |-> 0]
    /\ wrin = [w \in Worker |-> Nobody]
    /\ requests = {}
    /\ answer = [w \in Worker |-> Nothing]
    /\ my_color = [p \in Proc |-> White]
    /\ chunks_sent = [p \in Proc |-> 0]
    /\ chunks_recvd = [p \in Proc |-> 0]
    /\ ctrl_sent = [p \in Proc |-> 0]
    /\ ctrl_recvd = [p \in Proc |-> 0]
    /\ td_token = [at |-> 0, moving |-> FALSE, color |-> White,
                   recv_count |-> [p \in Proc |-> 0],
                   send_count |-> [p \in Proc |-> 0],
                   status |-> [p \in Proc |-> 0]]
    /\ scanned = [p \in Proc |-> 0]

Goto(w, from, to) ==
    /\ pc[w] = from
    /\ pc' = [pc EXCEPT ![w] = to]

----------------------------------------------------------------------------
(* The tree search of one thread.  (A definition named ...Variant, here and *)
(* below, is a plausible mistake in the definition it precedes; no          *)
(* specification uses it.)                                                 *)

\* A problem without children is processed.
SolveBase(w) ==
    /\ pc[w] = "work"
    /\ localDepth[w] > 0
    /\ localDepth' = [localDepth EXCEPT ![w] = @ - 1]
    /\ processed' = processed + 1
    /\ UNCHANGED <<sharedDepth, created, askVars, netVars, countVars,
                   tokenVars, pc, resume, serving, taken>>

\* A problem is replaced by its k children; with more than two chunks of
\* local work all whole chunks become shared, and the thread may then poll
\* for requests (polling_count % polling_interval = 0).
Expand(w, k) ==
    LET depth == localDepth[w] - 1 + k
        releases == depth > 2 * ChunkSize
        kept == IF releases THEN depth % ChunkSize ELSE depth
    IN
    /\ pc[w] = "work"
    /\ localDepth[w] > 0
    /\ created + k <= MaxProblems
    /\ created' = created + k
    /\ processed' = processed + 1
    /\ localDepth' = [localDepth EXCEPT ![w] = kept]
    /\ sharedDepth' = [sharedDepth EXCEPT ![w] = @ + depth - kept]
    /\ \/ pc' = pc /\ resume' = resume
       \/ /\ releases
          /\ pc' = [pc EXCEPT ![w] = "progress"]
          /\ resume' = [resume EXCEPT ![w] = "work"]
    /\ UNCHANGED <<askVars, netVars, countVars, tokenVars, serving, taken>>

\* Variant: a chunk is taken back without looking.
AcquireUncheckedVariant(w) ==
    /\ pc[w] = "work"
    /\ localDepth[w] = 0
    /\ IF TRUE
       THEN /\ localDepth' = [localDepth EXCEPT ![w] = ChunkSize]
            /\ sharedDepth' = [sharedDepth EXCEPT ![w] = @ - ChunkSize]
            /\ pc' = pc
       ELSE /\ pc' = [pc EXCEPT ![w] = "search"]
            /\ UNCHANGED <<localDepth, sharedDepth>>
    /\ UNCHANGED <<created, processed, askVars, netVars, countVars, tokenVars,
                   resume, serving, taken>>

\* ss_acquire: a chunk comes back from the shared part.
Acquire(w) ==
    /\ pc[w] = "work"
    /\ localDepth[w] = 0
    /\ IF sharedDepth[w] >= ChunkSize
       THEN /\ localDepth' = [localDepth EXCEPT ![w] = ChunkSize]
            /\ sharedDepth' = [sharedDepth EXCEPT ![w] = @ - ChunkSize]
            /\ pc' = pc
       ELSE /\ pc' = [pc EXCEPT ![w] = "search"]
            /\ UNCHANGED <<localDepth, sharedDepth>>
    /\ UNCHANGED <<created, processed, askVars, netVars, countVars, tokenVars,
                   resume, serving, taken>>

Siblings(w) == {v \in Worker : v[1] = w[1] /\ v # w}

\* findwork and ss_steal: a chunk of another thread of the same process,
\* unless the thread waits for an answer from another process.
StealHere(w, v) ==
    /\ ~waiting[w]
    /\ sharedDepth[v] >= ChunkSize
    /\ Goto(w, "search", "work")
    /\ localDepth' = [localDepth EXCEPT ![w] = @ + ChunkSize]
    /\ sharedDepth' = [sharedDepth EXCEPT ![v] = @ - ChunkSize]
    /\ UNCHANGED <<created, processed, askVars, netVars, countVars, tokenVars,
                   resume, serving, taken>>

\* findwork reads the stacks of the other threads one by one and without
\* their locks, and ss_steal looks again under the lock of the one it chose:
\* the search may come back with nothing although a stack it has passed has
\* work by then, or because another thief came first.
NothingHere(w) ==
    /\ Goto(w, "search", "getwork")
    /\ UNCHANGED <<workVars, askVars, netVars, countVars, tokenVars,
                   resume, serving, taken>>

----------------------------------------------------------------------------
(* ss_get_work: one round of a thread that has run out of work.            *)

\* The thread leaves, asks, or goes on to poll. A thread that has used up
\* its MaxRequests polls without asking; the code, which has no such bound
\* under AGGRESSIVE without a limit, would ask again.
GetWork(w) ==
    /\ pc[w] = "getwork"
    /\ pc' = [pc EXCEPT ![w] =
                IF my_color[w[1]] = Red THEN "clear"
                ELSE IF ~waiting[w] /\ my_color[w[1]] = White
                        /\ asked[w] < MaxRequests[w[1]]
                     THEN "post" ELSE "progress"]
    /\ resume' = [resume EXCEPT ![w] = "receive"]
    /\ UNCHANGED <<workVars, askVars, netVars, countVars, tokenVars,
                   serving, taken>>

\* The process to ask, round robin and never one's own.
NextVictim(w) ==
    LET q == Next1(last_steal[w])
    IN IF q = w[1] THEN Next1(q) ELSE q

Post(w) ==
    LET q == NextVictim(w) IN
    /\ Goto(w, "post", "progress")
    /\ last_steal' = [last_steal EXCEPT ![w] = q]
    /\ asked' = [asked EXCEPT ![w] = @ + 1]
    /\ waiting' = [waiting EXCEPT ![w] = TRUE]
    /\ ctrl_sent' = [ctrl_sent EXCEPT ![w[1]] = @ + 1]
    /\ requests' = requests \cup {<<w, q>>}
    /\ UNCHANGED <<workVars, wrin, answer, chunks_sent, chunks_recvd,
                   ctrl_recvd, tokenVars, resume, serving, taken>>

\* The answer to the thread's request arrives: work goes to its stack ...
ReceiveWork(w) ==
    /\ waiting[w]
    /\ answer[w] > 0
    /\ Goto(w, "receive", "count")
    /\ localDepth' = [localDepth EXCEPT ![w] = @ + answer[w]]
    /\ answer' = [answer EXCEPT ![w] = Nothing]
    /\ UNCHANGED <<sharedDepth, created, processed, askVars, wrin, requests,
                   countVars, tokenVars, resume, serving, taken>>

\* Variant: work is counted as a control message.
CountWorkAsCtrlVariant(w) ==
    /\ Goto(w, "count", "token")
    /\ ctrl_recvd' = [ctrl_recvd EXCEPT ![w[1]] = @ + 1]
    /\ waiting' = [waiting EXCEPT ![w] = FALSE]
    /\ UNCHANGED <<workVars, asked, last_steal, netVars, chunks_sent,
                   ctrl_sent, chunks_recvd, tokenVars, resume, serving, taken>>

\* ... and is then counted;
CountWork(w) ==
    /\ Goto(w, "count", "token")
    /\ chunks_recvd' = [chunks_recvd EXCEPT ![w[1]] = @ + 1]
    /\ waiting' = [waiting EXCEPT ![w] = FALSE]
    /\ UNCHANGED <<workVars, asked, last_steal, netVars, chunks_sent,
                   ctrl_sent, ctrl_recvd, tokenVars, resume, serving, taken>>

\* a refusal is only counted.
ReceiveRefusal(w) ==
    /\ waiting[w]
    /\ answer[w] = 0
    /\ Goto(w, "receive", "token")
    /\ answer' = [answer EXCEPT ![w] = Nothing]
    /\ ctrl_recvd' = [ctrl_recvd EXCEPT ![w[1]] = @ + 1]
    /\ waiting' = [waiting EXCEPT ![w] = FALSE]
    /\ UNCHANGED <<workVars, asked, last_steal, wrin, requests, chunks_sent,
                   chunks_recvd, ctrl_sent, tokenVars, resume, serving, taken>>

\* Nothing has arrived: an answer may be on its way for a while.
NoAnswer(w) ==
    /\ Goto(w, "receive", "token")
    /\ UNCHANGED <<workVars, askVars, netVars, countVars, tokenVars,
                   resume, serving, taken>>

----------------------------------------------------------------------------
(* ws_make_progress: a thread answers one request.                         *)

\* MPI hands a request to the listener of some thread of its process.
Match(w, r) ==
    /\ <<r, w[1]>> \in requests
    /\ wrin[w] = Nobody
    /\ wrin' = [wrin EXCEPT ![w] = r]
    /\ requests' = requests \ {<<r, w[1]>>}
    /\ UNCHANGED <<workVars, askVars, answer, countVars, tokenVars,
                   pc, resume, serving, taken>>

NoRequest(w) ==
    /\ my_color[w[1]] = Red \/ wrin[w] = Nobody
    /\ Goto(w, "progress", resume[w])
    /\ UNCHANGED <<workVars, askVars, netVars, countVars, tokenVars,
                   resume, serving, taken>>

Accept(w) ==
    /\ my_color[w[1]] # Red
    /\ wrin[w] \in Worker
    /\ Goto(w, "progress", "take")
    /\ serving' = [serving EXCEPT ![w] = wrin[w]]
    /\ wrin' = [wrin EXCEPT ![w] = Nobody]
    /\ ctrl_recvd' = [ctrl_recvd EXCEPT ![w[1]] = @ + 1]
    /\ UNCHANGED <<workVars, askVars, requests, answer, chunks_sent,
                   chunks_recvd, ctrl_sent, tokenVars, resume, taken>>

\* Variant: sharedStart is not advanced.
TakeCopyingVariant(w, v) ==
    /\ v[1] = w[1]
    /\ sharedDepth[v] >= MessageSize
    /\ Goto(w, "take", "send")
    /\ sharedDepth' = sharedDepth
    /\ taken' = [taken EXCEPT ![w] = MessageSize]
    /\ UNCHANGED <<localDepth, created, processed, askVars, netVars,
                   countVars, tokenVars, resume, serving>>

\* A message's worth of work of some thread of the process is copied to
\* ow_buff, under the lock of that thread's stack.
TakeForRemote(w, v) ==
    /\ v[1] = w[1]
    /\ sharedDepth[v] >= MessageSize
    /\ Goto(w, "take", "send")
    /\ sharedDepth' = [sharedDepth EXCEPT ![v] = @ - MessageSize]
    /\ taken' = [taken EXCEPT ![w] = MessageSize]
    /\ UNCHANGED <<localDepth, created, processed, askVars, netVars,
                   countVars, tokenVars, resume, serving>>

\* findwork_for_remote reads the stacks one by one without locks too, so it
\* may miss what another thread of the process has released meanwhile; the
\* thread's own stack does not grow while the thread searches.
NothingForRemote(w) ==
    /\ sharedDepth[w] < MessageSize
    /\ Goto(w, "take", "refuse")
    /\ UNCHANGED <<workVars, askVars, netVars, countVars, tokenVars,
                   resume, serving, taken>>

\* Variant: chunks_sent is not incremented.
SendWorkUncountedVariant(w) ==
    /\ Goto(w, "send", resume[w])
    /\ chunks_sent' = chunks_sent
    /\ answer' = [answer EXCEPT ![serving[w]] = taken[w]]
    /\ taken' = [taken EXCEPT ![w] = 0]
    /\ serving' = [serving EXCEPT ![w] = Nobody]
    /\ UNCHANGED <<workVars, askVars, wrin, requests, chunks_recvd,
                   ctrl_sent, ctrl_recvd, tokenVars, resume>>

\* Variant: the refusal is sent although work was.
SendWorkAndRefuseVariant(w) ==
    /\ Goto(w, "send", "refuse")
    /\ chunks_sent' = [chunks_sent EXCEPT ![w[1]] = @ + 1]
    /\ answer' = [answer EXCEPT ![serving[w]] = taken[w]]
    /\ taken' = [taken EXCEPT ![w] = 0]
    /\ UNCHANGED <<workVars, askVars, wrin, requests, chunks_recvd,
                   ctrl_sent, ctrl_recvd, tokenVars, resume, serving>>

SendWork(w) ==
    /\ Goto(w, "send", resume[w])
    /\ chunks_sent' = [chunks_sent EXCEPT ![w[1]] = @ + 1]
    /\ answer' = [answer EXCEPT ![serving[w]] = taken[w]]
    /\ taken' = [taken EXCEPT ![w] = 0]
    /\ serving' = [serving EXCEPT ![w] = Nobody]
    /\ UNCHANGED <<workVars, askVars, wrin, requests, chunks_recvd,
                   ctrl_sent, ctrl_recvd, tokenVars, resume>>

Refuse(w) ==
    /\ Goto(w, "refuse", resume[w])
    /\ ctrl_sent' = [ctrl_sent EXCEPT ![w[1]] = @ + 1]
    /\ answer' = [answer EXCEPT ![serving[w]] = 0]
    /\ serving' = [serving EXCEPT ![w] = Nobody]
    /\ UNCHANGED <<workVars, askVars, wrin, requests, chunks_sent,
                   chunks_recvd, ctrl_recvd, tokenVars, resume, taken>>

----------------------------------------------------------------------------
(* manage_token, by thread 0 of the process that has the token.            *)

\* A token whose counters are collected afresh, from process p on.
Restarted(base, p, r, s) ==
    [recv_count |-> [i \in Proc |-> IF i = p THEN r ELSE 0],
     send_count |-> [i \in Proc |-> IF i = p THEN s ELSE 0],
     status |-> [i \in Proc |-> IF i = p THEN base + 1 ELSE base]]

Unchanged(p, r, s) == td_token.recv_count[p] = r /\ td_token.send_count[p] = s
AllConfirmed(base) == \A i \in Proc : td_token.status[i] = base + 2
SumsAgree == SumFunction(td_token.recv_count) = SumFunction(td_token.send_count)

\* Variant: the sums are not compared.
SettledUnsummedVariant(base, p, r, s) == Unchanged(p, r, s) /\ AllConfirmed(base)

\* Everybody has confirmed its counters, and they agree.
Settled(base, p, r, s) == Unchanged(p, r, s) /\ AllConfirmed(base) /\ SumsAgree

\* What the visit of p makes of the counters r and s: recorded the first
\* time, confirmed if the next visit finds them as they were, and collected
\* afresh as soon as one has moved or the sums differ.  The WHITE states are
\* 0, 1, 2 (base 0) and the PINK ones 2, 3, 4 (base 2).
Visited(base, p, r, s) ==
    LET kept == [recv_count |-> td_token.recv_count,
                 send_count |-> td_token.send_count,
                 status |-> td_token.status]
    IN CASE td_token.status[p] = base ->
                [recv_count |-> [kept.recv_count EXCEPT ![p] = r],
                 send_count |-> [kept.send_count EXCEPT ![p] = s],
                 status |-> [kept.status EXCEPT ![p] = base + 1]]
         [] td_token.status[p] = base + 1 ->
                IF Unchanged(p, r, s)
                THEN [kept EXCEPT !.status[p] = base + 2]
                ELSE Restarted(base, p, r, s)
         [] OTHER ->
                IF ~Unchanged(p, r, s) \/ (AllConfirmed(base) /\ ~SumsAgree)
                THEN Restarted(base, p, r, s)
                ELSE kept

Pass(p, color, counts) ==
    td_token' = [at |-> Next1(p), moving |-> TRUE, color |-> color,
                 recv_count |-> counts.recv_count,
                 send_count |-> counts.send_count, status |-> counts.status]

\* The thread goes on: to the barrier with a RED process, to its work, or to
\* another round.
After(w, color) ==
    IF color = Red THEN "clear" ELSE IF localDepth[w] > 0 THEN "work" ELSE "search"

\* Thread 0 when no token has arrived, and the other threads.
SkipToken(w) ==
    /\ w[2] # 0 \/ td_token.at # w[1] \/ td_token.moving
    /\ pc[w] = "token"
    /\ pc' = [pc EXCEPT ![w] =
                IF w[2] = 0 THEN After(w, White) ELSE After(w, my_color[w[1]])]
    /\ UNCHANGED <<workVars, askVars, netVars, countVars, tokenVars,
                   resume, serving, taken>>

TakeToken(p) ==
    /\ td_token.at = p
    /\ Goto(Leader(p), "token", IF td_token.color = White THEN "scan" ELSE "visit")
    /\ td_token' = [td_token EXCEPT !.moving = FALSE]
    /\ scanned' = [scanned EXCEPT ![p] = 0]
    /\ UNCHANGED <<workVars, askVars, netVars, countVars, my_color,
                   resume, serving, taken>>

\* ss_allThreadsLocalFullDepth looks at one stack after the other; a process
\* with work keeps the WHITE token.
Scan(p) ==
    LET next == <<p, scanned[p]>> IN
    /\ pc[Leader(p)] = "scan"
    /\ scanned[p] < T[p]
    /\ IF ss_localFullDepth(next) = 0
       THEN scanned' = [scanned EXCEPT ![p] = @ + 1] /\ pc' = pc
       ELSE /\ pc' = [pc EXCEPT ![Leader(p)] = After(Leader(p), White)]
            /\ scanned' = scanned
    /\ UNCHANGED <<workVars, askVars, netVars, countVars, my_color, td_token,
                   resume, serving, taken>>

WhiteVisit(p) ==
    LET r == chunks_recvd[p]
        s == chunks_sent[p]
    IN
    /\ scanned[p] = T[p]
    /\ Goto(Leader(p), "scan", "search")
    /\ IF p = 0 /\ Settled(0, p, r, s)
       THEN /\ my_color' = [my_color EXCEPT ![p] = Pink]
            /\ Pass(p, Pink, Restarted(2, p, ctrl_recvd[p], ctrl_sent[p]))
       ELSE /\ my_color' = my_color
            /\ Pass(p, White, Visited(0, p, r, s))
    /\ UNCHANGED <<workVars, askVars, netVars, countVars, scanned, resume,
                   serving, taken>>

PinkVisit(p) ==
    LET r == ctrl_recvd[p]
        s == ctrl_sent[p]
        settled == p = 0 /\ Settled(2, p, r, s)
        color == IF settled THEN Red ELSE Pink
    IN
    /\ td_token.color = Pink
    /\ Goto(Leader(p), "visit", After(Leader(p), color))
    /\ my_color' = [my_color EXCEPT ![p] = color]
    /\ Pass(p, color, Visited(2, p, r, s))
    /\ UNCHANGED <<workVars, askVars, netVars, countVars, scanned, resume,
                   serving, taken>>

\* The RED token stops at the last process.
RedVisit(p) ==
    /\ td_token.color = Red
    /\ Goto(Leader(p), "visit", "clear")
    /\ my_color' = [my_color EXCEPT ![p] = Red]
    /\ td_token' = IF p = N - 1 THEN td_token
                   ELSE [td_token EXCEPT !.at = Next1(p), !.moving = TRUE]
    /\ UNCHANGED <<workVars, askVars, netVars, countVars, scanned, resume,
                   serving, taken>>

----------------------------------------------------------------------------
(* The end.                                                                *)

\* clear_mpi_communications: the listener and a pending request are
\* cancelled; a request the listener had already matched is dropped.
Clear(w) ==
    /\ Goto(w, "clear", "barrier")
    /\ wrin' = [wrin EXCEPT ![w] = Closed]
    /\ waiting' = [waiting EXCEPT ![w] = FALSE]
    /\ requests' \in {requests, {m \in requests : m[1] # w}}
    /\ UNCHANGED <<workVars, asked, last_steal, answer, countVars, tokenVars,
                   resume, serving, taken>>

\* cbarrier_wait: with several processes nobody cancels it.
End(w) ==
    /\ \A t \in Thread(w[1]) : pc[<<w[1], t>>] \in {"barrier", "ended"}
    /\ Goto(w, "barrier", "ended")
    /\ UNCHANGED <<workVars, askVars, netVars, countVars, tokenVars, resume,
                   serving, taken>>

AllEnded == \A w \in Worker : pc[w] = "ended"
Done == AllEnded /\ UNCHANGED vars

TokenStep(p) ==
    TakeToken(p) \/ Scan(p) \/ WhiteVisit(p) \/ PinkVisit(p) \/ RedVisit(p)

Step(w) ==
    \/ SolveBase(w)
    \/ \E k \in Fanout : Expand(w, k)
    \/ Acquire(w)
    \/ \E v \in Siblings(w) : StealHere(w, v)
    \/ NothingHere(w)
    \/ GetWork(w)
    \/ Post(w)
    \/ ReceiveWork(w) \/ CountWork(w) \/ ReceiveRefusal(w) \/ NoAnswer(w)
    \/ NoRequest(w) \/ Accept(w)
    \/ \E v \in Worker : TakeForRemote(w, v)
    \/ NothingForRemote(w)
    \/ SendWork(w) \/ Refuse(w)
    \/ SkipToken(w)
    \/ Clear(w) \/ End(w)

Deliver(p) == \E t \in Thread(p), r \in Worker : Match(<<p, t>>, r)

Next ==
    \/ \E w \in Worker : Step(w)
    \/ \E p \in Proc : TokenStep(p)
    \/ \E p \in Proc : Deliver(p)
    \/ Done

Spec == Init /\ [][Next]_vars

\* The operating system runs every thread, and MPI delivers every message:
\* one that is looked for again and again is found.
FairSpec ==
    /\ Spec
    /\ \A w \in Worker :
        /\ WF_vars(Step(w))
        /\ SF_vars(ReceiveWork(w) \/ ReceiveRefusal(w))
    /\ \A p \in Proc :
        /\ WF_vars(TokenStep(p))
        /\ SF_vars(TakeToken(p))
        /\ WF_vars(Deliver(p))
----------------------------------------------------------------------------
(* Properties.                                                             *)

\* Every variable keeps its type (td_token_t, the request handles, the
\* counters of parallel_stack_recursion_internal_mpi).
TypeOK ==
    /\ localDepth \in [Worker -> Nat] /\ sharedDepth \in [Worker -> Nat]
    /\ created \in Nat /\ processed \in Nat
    /\ pc \in [Worker -> Labels]
    /\ resume \in [Worker -> {"work", "receive"}]
    /\ asked \in [Worker -> Nat] /\ \A w \in Worker : asked[w] <= MaxRequests[w[1]]
    /\ last_steal \in [Worker -> Proc]
    /\ waiting \in [Worker -> BOOLEAN]
    /\ serving \in [Worker -> Worker \cup {Nobody}]
    /\ taken \in [Worker -> {0, MessageSize}]
    /\ wrin \in [Worker -> Worker \cup {Nobody, Closed}]
    /\ requests \subseteq Worker \X Proc
    /\ answer \in [Worker -> {Nothing, 0, MessageSize}]
    /\ my_color \in [Proc -> {White, Pink, Red}]
    /\ chunks_sent \in [Proc -> Nat] /\ chunks_recvd \in [Proc -> Nat]
    /\ ctrl_sent \in [Proc -> Nat] /\ ctrl_recvd \in [Proc -> Nat]
    /\ td_token \in [at : Proc, moving : BOOLEAN, color : {White, Pink, Red},
                     recv_count : [Proc -> Nat], send_count : [Proc -> Nat],
                     status : [Proc -> 0..4]]
    /\ scanned \in [Proc -> Nat] /\ \A p \in Proc : scanned[p] <= T[p]

\* The messages w's request has turned into and that are not yet dealt with:
\* the request itself, under way, in a listener or being served, and the
\* answer, under way or not yet counted.
Traces(w) ==
    Cardinality({m \in requests : m[1] = w})
      + Cardinality({v \in Worker : wrin[v] = w})
      + Cardinality({v \in Worker : serving[v] = w})
      + (IF answer[w] # Nothing THEN 1 ELSE 0)
      + (IF pc[w] = "count" THEN 1 ELSE 0)

\* A waiting thread gets exactly one answer and nobody else gets any: answers
\* are told apart only by the thread number in their tag
\* (DPSR_MPIWS_WORKRESPONSE | (threadId << 8)), so a second one would be
\* taken for the answer to a later request.
OneAnswerEach == \A w \in Worker : Traces(w) = IF waiting[w] THEN 1 ELSE 0

\* chunks_sent and chunks_recvd, added over the ring, differ by the work
\* messages that are under way or not yet counted: what the WHITE token
\* relies on to see that work is travelling.
ChunkAccounting ==
    SumFunction(chunks_sent) - SumFunction(chunks_recvd) =
        Cardinality({w \in Worker : answer[w] > 0})
          + Cardinality({w \in Worker : pc[w] = "count"})

\* No problem is lost or duplicated on its way between stacks, the buffers
\* ow_buff and iw_buff, and the messages.
WorkConserved ==
    created = processed + SumFunction(Held) + SumFunction(Flying)

\* "This is safe now that the pink token has mopped up all outstanding
\* messages" (the comment above clear_mpi_communications in ss_get_work and
\* manage_token): when a process is RED, no request and no answer is
\* unfinished anywhere.
MoppedUp ==
    (\E p \in Proc : my_color[p] = Red) =>
        /\ requests = {}
        /\ \A w \in Worker :
            /\ answer[w] = Nothing
            /\ wrin[w] \notin Worker
            /\ serving[w] = Nobody

\* When all threads have left, every problem of the run has been processed.
AllProcessed == AllEnded => processed = created

DP == INSTANCE DistributedPool WITH
        held <- Held, flying <- Flying,
        declared <- \E p \in Proc : my_color[p] # White

\* The processes share work as DistributedPool says; in particular no process
\* turns PINK while one of them has work or a work message is under way.
ImplementsPool == DP!DPSpec

\* Every run ends.
Termination == <>AllEnded
=============================================================================
