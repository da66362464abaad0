---------------------------- MODULE StreamReplay ----------------------------
(***************************************************************************)
(* Replay of a recovered stream to its clients: subscribeStreamRecovery in *)
(* controller/stream_recovery.go.  A subscriber reads frames from Redis,   *)
(* then the row, and forwards what the row calls committed.  Between the   *)
(* two reads the worker and the reconcilers of StreamExecution go on.      *)
(***************************************************************************)
EXTENDS StreamExecution

CONSTANT Clients

VARIABLES
    cpc,      \* "closed", "wait", "read", or how the connection ended
    catt,     \* attempt the subscriber follows
    cseq,     \* last sequence written to the client
    got,      \* frames of the last read
    seen,     \* businessOutput of the connection
    out       \* auxiliary: what the client was sent, in all connections

sub == <<cpc, catt, cseq, got, seen, out>>
rvars == <<vars, sub>>

Ends == {"refused", "unavailable", "terminal", "ended"}
Business == {"data", "done"}
NoFrames == [s \in Seqs |-> None]

\* store.GetPublicAttempt, or the row's public attempt when Redis has none.
PublicAttempts == {published, attempt} \ {0}

\* Mutant: the cursor is kept although it belongs to another attempt.
ResumeSequenceAnyAttempt(c, a) == cseq[c]

\* streamRecoveryResumeSequence: the client's Last-Event-ID is the last event
\* it got, and counts for its own attempt only.
ResumeSequence(c, a) == IF catt[c] = a THEN cseq[c] ELSE 0

\* A (re)connecting client sends its cursor; without an attempt it waits for
\* the first one or is told that the execution ended before.
Connect(c) ==
    /\ cpc[c] \in {"closed", "refused", "unavailable", "ended"}
    /\ status \notin {"absent", "deleted"}
    /\ \/ \E a \in PublicAttempts :
            /\ catt' = [catt EXCEPT ![c] = a]
            /\ cseq' = [cseq EXCEPT ![c] = ResumeSequence(c, a)]
            /\ cpc' = [cpc EXCEPT ![c] = "wait"]
       \/ /\ PublicAttempts = {} /\ (status \in Final \/ ~lease)
          /\ cpc' = [cpc EXCEPT ![c] = "refused"]
          /\ UNCHANGED <<catt, cseq>>
    /\ seen' = seen \ {c}
    /\ UNCHANGED <<vars, got, out>>

\* store.WaitFrames: everything after the cursor, or nothing in time.
WaitFrames(c) ==
    /\ cpc[c] = "wait"
    /\ got' = [got EXCEPT ![c] =
                 [s \in Seqs |-> IF s > cseq[c] THEN frame[<<catt[c], s>>] ELSE None]]
    /\ cpc' = [cpc EXCEPT ![c] = "read"]
    /\ UNCHANGED <<vars, catt, cseq, seen, out>>

\* store.HasBusinessOutputThrough.
BusinessThrough(a, n) == \E s \in 1..n : frame[<<a, s>>] \in Business

\* A subscriber follows a new attempt only while it has sent no output.
MayFollow(c) == c \notin seen /\ ~BusinessThrough(catt[c], cseq[c])

\* Mutant: the last committed frame is held back.
DeliverableBelow(c) ==
    {n \in Seqs : n < committed /\ \A s \in cseq[c] + 1..n :
        got[c][s] # None /\ (s < n => got[c][s] \notin Terminal)}

\* Sequences up to which frames can be written: read, committed, in order,
\* and nothing after a terminal frame.
Deliverable(c) ==
    {n \in Seqs : n <= committed /\ \A s \in cseq[c] + 1..n :
        got[c][s] # None /\ (s < n => got[c][s] \notin Terminal)}

\* Where the connection stands once everything up to last is written.
AfterDelivery(c, last) ==
    IF last > cseq[c] /\ got[c][last] \in Terminal THEN "terminal"
    ELSE IF last = cseq[c] /\ last < committed THEN "unavailable"
    ELSE IF status \in Final \/ ~lease THEN "ended" ELSE "wait"

\* The frames of the subscriber's attempt are forwarded as far as possible.
Forward(c) ==
    \E last \in {cseq[c]} \cup Deliverable(c) :
        /\ \A n \in {cseq[c]} \cup Deliverable(c) : n <= last
        /\ cseq' = [cseq EXCEPT ![c] = last]
        /\ out' = [out EXCEPT ![c] =
                     [t \in Slots |-> IF t[1] = catt[c] /\ t[2] \in cseq[c] + 1..last
                                      THEN got[c][t[2]] ELSE out[c][t]]]
        /\ seen' = IF \E s \in cseq[c] + 1..last : got[c][s] \in Business
                   THEN seen \cup {c} ELSE seen
        /\ cpc' = [cpc EXCEPT ![c] = AfterDelivery(c, last)]

\* The row is read after the frames; what it calls committed is forwarded.
Deliver(c) ==
    /\ cpc[c] = "read"
    /\ got' = [got EXCEPT ![c] = NoFrames]
    /\ \/ status = "deleted" /\ cpc' = [cpc EXCEPT ![c] = "ended"]
          /\ UNCHANGED <<catt, cseq, seen, out>>
       \/ /\ status # "deleted" /\ attempt # catt[c]
          /\ IF MayFollow(c)
             THEN /\ cpc' = [cpc EXCEPT ![c] = "wait"]
                  /\ catt' = [catt EXCEPT ![c] = attempt]
                  /\ cseq' = [cseq EXCEPT ![c] = ResumeSequence(c, attempt)]
             ELSE cpc' = [cpc EXCEPT ![c] = "ended"] /\ UNCHANGED <<catt, cseq>>
          /\ UNCHANGED <<seen, out>>
       \/ status # "deleted" /\ attempt = catt[c] /\ Forward(c) /\ UNCHANGED catt
    /\ UNCHANGED vars

ReplayInit ==
    /\ Init
    /\ cpc = [c \in Clients |-> "closed"]
    /\ catt = [c \in Clients |-> 0] /\ cseq = [c \in Clients |-> 0]
    /\ got = [c \in Clients |-> NoFrames]
    /\ seen = {}
    /\ out = [c \in Clients |-> [t \in Slots |-> None]]

Subscriber(c) == Connect(c) \/ WaitFrames(c) \/ Deliver(c)

ReplayNext ==
    \/ Next /\ UNCHANGED sub
    \/ \E c \in Clients : Subscriber(c)

ReplaySpec == ReplayInit /\ [][ReplayNext]_rvars

\* A client keeps reconnecting, and its requests are served.
FairReplaySpec == ReplaySpec /\ \A c \in Clients : WF_rvars(Subscriber(c))

-----------------------------------------------------------------------------
(* Correctness.                                                            *)

\* Types of a connection; its cursor never passes the last frame
\* (streamRecoveryResumeSequence).
ReplayTypeOK ==
    /\ cpc \in [Clients -> {"closed", "wait", "read"} \cup Ends]
    /\ catt \in [Clients -> 0..AttemptBound] /\ cseq \in [Clients -> 0..MaxFrames]
    /\ got \in [Clients -> [Seqs -> FrameKinds \cup {None}]]
    /\ seen \subseteq Clients
    /\ out \in [Clients -> [Slots -> FrameKinds \cup {None}]]

\* What a client got of an attempt is committed, has no gap and nothing
\* follows its terminal event, in however many connections it was sent.
GapFree ==
    \A c \in Clients, t \in Slots : out[c][t] # None =>
        /\ t[1] = attempt => t[2] <= committed
        /\ \A s \in 1..t[2] - 1 : out[c][<<t[1], s>>] \in FrameKinds \ Terminal

\* A client is sent the output of one generation only, across retries of the
\* worker and reconnections of the client.
OneGeneration ==
    \A c \in Clients : \A t, u \in Slots :
        out[c][t] \in Business /\ out[c][u] \in Business => t[1] = u[1]

\* What docs/plugin-api/study-extensions.md says: event replay reads only
\* committed frames.  What a client was sent is what the row committed.
ReplaysCommitted ==
    \A c \in Clients, t \in Slots :
        out[c][t] # None /\ t[1] = attempt /\ t[2] <= committed => out[c][t] = frame[t]

\* What the error of controller/stream_recovery.go says: the connection ends
\* with "committed frames are unavailable" only if a committed frame is gone.
UnavailableIsTrue ==
    \A c \in Clients : cpc[c] = "unavailable" /\ catt[c] = attempt =>
        \E s \in 1..committed : frame[<<attempt, s>>] = None

\* A completed stream reaches the client that keeps reconnecting.
CompletedIsReplayed ==
    \A c \in Clients : status = "completed" ~> (cpc[c] = "terminal" \/ status = "deleted")

-----------------------------------------------------------------------------
(* Why replay has no gaps, and one generation for a single request.        *)

\* Nobody follows an attempt that the row has not started.
PublishedInv ==
    /\ published <= attempt
    /\ \A h \in Handlers : pc[h] \in {"publish", "republish"} => att[h] <= attempt

\* A cursor stands for frames the client has and that end nothing, and what
\* the subscriber has read ends nothing where the client has more.
SubscriberInv(c) ==
    /\ catt[c] <= attempt
    /\ cpc[c] \in {"wait", "read"} => catt[c] > 0
    /\ cpc[c] # "terminal" =>
         \A s \in 1..cseq[c] : out[c][<<catt[c], s>>] \in FrameKinds \ Terminal
    /\ \A t \in Slots : out[c][t] # None => t[1] <= attempt
    /\ cpc[c] = "read" /\ catt[c] = attempt =>
         \A s \in Seqs : s + 1 \in Seqs /\ out[c][<<attempt, s + 1>>] # None
                           => got[c][s] \notin Terminal

ReplayInv == GapFree /\ PublishedInv /\ \A c \in Clients : SubscriberInv(c)

\* The execution stays with its attempt: a worker knows of output, or it is over.
Decided == business # {} \/ status \in Final \cup {"deleted"}

\* The next commit of the attempt, if its worker makes one, is business output.
CommitsBusiness(h) ==
    HoldsLease(h) /\ att[h] = attempt =>
        ~MayWrite(h) /\ (pc[h] = "commit" => hand[h] \in Business)

\* Output that a client has decides the attempt; output that a subscriber has
\* read decides it once it is committed, whichever frame that commits.
OutputDecides(c) ==
    /\ \A t \in Slots : out[c][t] \in Business => t[1] = attempt /\ Decided
    /\ cpc[c] = "read" /\ catt[c] = attempt =>
         \A s \in Seqs : got[c][s] \in Business =>
             Decided \/ (s = committed + 1 /\ \A h \in Handlers : CommitsBusiness(h))

SoloReplayInv ==
    /\ \A s \in 1..committed : frame[<<attempt, s>>] \in Business => Decided
    /\ \A c \in Clients : OutputDecides(c)
=============================================================================
