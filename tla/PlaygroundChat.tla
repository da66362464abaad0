---------------------------- MODULE PlaygroundChat ----------------------------
(***************************************************************************)
(* The chat playground of the web front end: the stream controller, the    *)
(* chat handler that buffers deltas and hands them to React, the state     *)
(* hook that persists the conversation, and the user's actions on it.      *)
(*                                                                         *)
(* One step is one turn of the JavaScript event loop.  The messages are a  *)
(* React state: an update is a function that React runs later, at the next *)
(* render, on the state the updates before it produced; if nothing is      *)
(* queued React may also run it at once.  The updates of a user event are  *)
(* rendered before the next turn, those of timers, promises and stream     *)
(* events by a turn of their own.  A handler sees the messages and the     *)
(* "generating" flag of the last render.                                   *)
(*                                                                         *)
(* Generations are numbered across remounts, where the code starts again   *)
(* at zero: they are only compared for equality.  A message is identified  *)
(* by its role and the generation it was created for, instead of a random  *)
(* key; src, in a message and in the buffer, is history: the generations   *)
(* its text came from.  Deltas carry no think tags.                        *)
(***************************************************************************)
EXTENDS Naturals, FiniteSets, SequencesExt

CONSTANTS
    Script,        \* the deltas the upstream sends: <<[type, text], ...>>
    MaxRequests,   \* bound on the requests the user sends
    MaxStored,     \* MAX_STORED_MESSAGES
    MaxMounts      \* bound on how often the page is opened

ASSUME ScriptAssumption ==
    Script \in Seq([type : {"reasoning", "content"}, text : Seq(STRING)])
ASSUME BoundsAssumption ==
    MaxRequests \in Nat /\ MaxStored \in Nat \ {0} /\ MaxMounts \in Nat

VARIABLES
    gen,         \* requestGenerationRef
    cgen,        \* generation of the stream controller
    waits,       \* sends of the controller that wait for their headers
    source,      \* the controller's active source
    open,        \* event sources that are not closed, with their position
    calls,       \* generations of the non-streaming requests in flight
    pending,     \* pendingStreamChunksRef
    timer,       \* generation of the flush timer, 0 when none is set
    requesting, streaming,   \* isRequesting, isStreaming
    shown,       \* isGenerating as last rendered
    queue,       \* updates of the messages React has not run
    messages,    \* the messages as last rendered
    latest,      \* latestMessagesRef
    saveTimer,   \* messagesSaveTimerRef is set
    storage,     \* the messages in localStorage
    editing,     \* editingMessageKey
    mounted,
    made, mounts,          \* counters of the bounds
    recv, intact, cut, lost  \* history: the text received; nothing disturbed it;
                           \* a connection was cut; an edit undid an update

ctlVars  == <<cgen, waits, source, open>>
chatVars == <<gen, calls, pending, timer>>
flagVars == <<requesting, streaming, shown>>
msgVars  == <<queue, messages, latest, saveTimer, storage>>
uiVars   == <<editing, mounted, made, mounts>>
histVars == <<recv, intact, cut, lost>>
vars == <<ctlVars, chatVars, flagVars, msgVars, uiVars, histVars>>

-----------------------------------------------------------------------------
(* Messages.                                                               *)

NoText == [reasoning |-> <<>>, content |-> <<>>]
NoSource == [cg |-> 0, gen |-> 0]
NoKey == [from |-> "none", req |-> 0]

KeyOf(m) == [from |-> m.from, req |-> m.req]

UserMessage(g) ==
    [from |-> "user", req |-> g, status |-> "none", text |-> NoText, src |-> {}]

LoadingMessage(g) ==
    [from |-> "assistant", req |-> g, status |-> "loading", text |-> NoText,
     src |-> {}]

IsPending(m) == m.status \in {"loading", "streaming"}
IsFinal(m) == m.status \in {"complete", "error"}

\* A delta that starts with the text it follows is taken for the whole text.
MergePending(cur, next) ==
    IF cur = <<>> \/ ~IsPrefix(cur, next) THEN cur \o next ELSE next

Appendable(cur, chunk) ==
    IF cur = <<>> \/ ~IsPrefix(cur, chunk)
    THEN chunk ELSE SubSeq(chunk, Len(cur) + 1, Len(chunk))

\* Mutant: a flush replaces the text instead of adding to it.
ApplyChunkReplaces(m, type, chunk) ==
    IF chunk = <<>> \/ m.status = "error" THEN m
    ELSE [m EXCEPT !.text[type] = chunk, !.status = "streaming"]

ApplyChunk(m, type, chunk) ==
    IF chunk = <<>> \/ m.status = "error" THEN m
    ELSE [m EXCEPT !.text[type] = @ \o Appendable(@, chunk),
                   !.status = "streaming"]

Complete(m) == [m EXCEPT !.status = "complete"]

\* What an update does to the last message, an assistant's.
UpdateLast(u, m) ==
    CASE u.op = "chunk" ->
           [ApplyChunk(ApplyChunk(m, "reasoning", u.text.reasoning),
                       "content", u.text.content)
              EXCEPT !.src = @ \cup u.src]
      [] u.op = "complete" -> IF IsFinal(m) THEN m ELSE Complete(m)
      [] u.op = "stopped"  -> IF IsPending(m) THEN Complete(m) ELSE m
      [] u.op = "answer"   ->
           [Complete(m) EXCEPT !.text = u.text, !.src = @ \cup {u.gen}]
      [] u.op = "error"    ->
           [m EXCEPT !.text.content = <<"error">>, !.status = "error",
                     !.src = @ \cup {u.gen}]

Without(ms, key) ==
    FoldLeft(LAMBDA acc, m : IF KeyOf(m) = key THEN acc ELSE Append(acc, m), <<>>, ms)

\* An update run on ms while the generation is g: those of the chat handler
\* look at the generation when they run, not when they are queued.
Apply(u, ms, g) ==
    CASE u.op = "set"    -> u.msgs
      [] u.op = "delete" -> Without(ms, u.key)
      [] OTHER ->
           IF u.gen # g \/ ms = <<>> \/ Last(ms).from # "assistant" THEN ms
           ELSE [ms EXCEPT ![Len(ms)] = UpdateLast(u, @)]

RunUpdates(us, ms, g) ==
    FoldLeft(LAMBDA acc, u : Apply(u, acc, g), ms, us)

Set(ms) == [op |-> "set", msgs |-> ms]
Upd(op, g) == [op |-> op, gen |-> g, text |-> NoText]

-----------------------------------------------------------------------------
(* Persistence.                                                            *)

Trim(ms) ==
    IF Len(ms) <= MaxStored THEN ms
    ELSE SubSeq(ms, Len(ms) - MaxStored + 1, Len(ms))

HasText(m) == m.text # NoText

\* A pending message that has text is taken for a complete one.
NormalizeStoredMessageForLoad(m) ==
    IF IsPending(m) /\ HasText(m) THEN Complete(m) ELSE m

\* Of the messages still pending, sanitizeMessagesOnLoad makes the last an error.
Load(ms) ==
    LET normal == [i \in 1..Len(ms) |-> NormalizeStoredMessageForLoad(ms[i])]
        left == {i \in 1..Len(ms) : IsPending(normal[i])}
    IN  [i \in 1..Len(ms) |->
           IF i \in left /\ \A j \in left : j <= i
           THEN [normal[i] EXCEPT !.status = "error", !.text.content = <<"error">>]
           ELSE normal[i]]

-----------------------------------------------------------------------------
(* What the turns have in common.                                          *)

\* Mutant: the flush timer of the old generation is left set.
DiscardPendingKeepsTimer(g) ==
    /\ pending' = [gen |-> g, text |-> NoText, src |-> {}]
    /\ UNCHANGED timer

\* Mutant: the buffer is handed to the new generation.
DiscardPendingKeepsText(g) ==
    /\ timer' = 0
    /\ pending' = [pending EXCEPT !.gen = g]

DiscardPending(g) ==
    /\ timer' = 0
    /\ pending' = [gen |-> g, text |-> NoText, src |-> {}]

\* The updates flushStreamUpdates(g) queues.
Flushed(g) ==
    IF g # gen \/ pending.gen # g \/ pending.text = NoText THEN <<>>
    ELSE <<[op |-> "chunk", gen |-> g, text |-> pending.text,
                 src |-> pending.src]>>

FlushState(g) ==
    IF g # gen THEN UNCHANGED <<timer, pending>>
    ELSE /\ timer' = 0
         /\ pending' = IF pending.gen = g
                       THEN [pending EXCEPT !.text = NoText, !.src = {}] ELSE pending

\* A turn that is no user event queues us; the first may be run at once.
Enqueue(us) ==
    \/ /\ queue' = queue \o us
       /\ UNCHANGED <<messages, latest, saveTimer, storage>>
    \/ LET ms == Apply(Head(us), messages, gen)
       IN /\ us # <<>> /\ queue = <<>>
          /\ queue' = <<Set(ms)>> \o Tail(us)
          /\ latest' = ms
          /\ saveTimer' = TRUE
          /\ UNCHANGED <<messages, storage>>

\* A user event queues us and is rendered; the generation is then g.  The
\* first update, queued when it was at, may have been run at once.
Commit(us, at, g) ==
    /\ \/ messages' = RunUpdates(queue \o us, messages, g)
       \/ /\ us # <<>> /\ queue = <<>>
          /\ messages' = RunUpdates(Tail(us), Apply(Head(us), messages, at), g)
    /\ queue' = <<>>
    /\ latest' = messages'
    /\ saveTimer' = TRUE
    /\ shown' = (requesting' \/ streaming')
    /\ UNCHANGED storage

\* The controller closes its source and forgets it.
CancelSource ==
    /\ cgen' = cgen + 1
    /\ source' = NoSource
    /\ open' = {s \in open : s.cg # source.cg}

\* sendStreamingChat and sendNonStreamingChat for the messages ms.
SendChat(ms) ==
    LET g == gen + 1
    IN  /\ made < MaxRequests
        /\ made' = made + 1
        /\ gen' = g
        /\ DiscardPending(g)
        /\ requesting' = TRUE
        /\ streaming' = FALSE
        /\ CancelSource
        /\ \/ /\ waits' = waits \cup {[cg |-> cgen + 1, gen |-> g]}
              /\ calls' = {}
           \/ /\ calls' = {g}
              /\ UNCHANGED waits
        /\ recv' = NoText /\ intact' = TRUE /\ cut' = FALSE /\ UNCHANGED lost
        /\ Commit(<<Set(ms)>>, gen, g)

\* handleStreamError, called in an asynchronous turn of generation g.
FailGeneration(g) ==
    IF g # gen THEN UNCHANGED <<pending, timer, requesting, queue, messages,
                                latest, saveTimer, storage>>
    ELSE /\ FlushState(g)
         /\ requesting' = FALSE
         /\ Enqueue(Flushed(g) \o <<Upd("error", g)>>)

-----------------------------------------------------------------------------
(* The user.                                                               *)

IndexOf(key) == CHOOSE i \in 1..Len(messages) : KeyOf(messages[i]) = key
IsShown(key) == \E i \in 1..Len(messages) : KeyOf(messages[i]) = key

\* Mutant: a message can be sent while another is answered.
HandleSendMessageUnguarded ==
    /\ mounted
    /\ SendChat(messages \o <<UserMessage(gen + 1), LoadingMessage(gen + 1)>>)
    /\ UNCHANGED <<editing, mounted, mounts>>

HandleSendMessage ==
    /\ mounted /\ ~shown
    /\ SendChat(messages \o <<UserMessage(gen + 1), LoadingMessage(gen + 1)>>)
    /\ UNCHANGED <<editing, mounted, mounts>>

HandleRegenerateMessage(i) ==
    /\ mounted /\ ~shown
    /\ SendChat(SubSeq(messages, 1,
                       IF messages[i].from = "user" THEN i ELSE i - 1)
                \o <<LoadingMessage(gen + 1)>>)
    /\ UNCHANGED <<editing, mounted, mounts>>

HandleEditMessage(i) ==
    /\ mounted /\ ~shown
    /\ editing' = KeyOf(messages[i])
    /\ UNCHANGED <<ctlVars, chatVars, flagVars, msgVars, mounted, made, mounts,
                   histVars>>

HandleEditOpenChange ==
    /\ mounted /\ editing # NoKey
    /\ editing' = NoKey
    /\ UNCHANGED <<ctlVars, chatVars, flagVars, msgVars, mounted, made, mounts,
                   histVars>>

\* The editor stays open, and can be saved, while another answer streams.
ApplyEdit ==
    LET i == IndexOf(editing)
        edited == [messages EXCEPT ![i].text.content =
                     IF messages[i].from = "user" THEN @ ELSE <<"edited">>]
    IN  /\ mounted /\ editing # NoKey /\ IsShown(editing)
        /\ editing' = NoKey
        /\ \/ /\ UNCHANGED <<ctlVars, chatVars, requesting, streaming, made, recv,
                             cut>>
              /\ intact' = (intact /\ queue = <<>> /\ messages[i].req # gen)
              /\ lost' = (lost \/ queue # <<>>)
              /\ Commit(<<Set(edited)>>, gen, gen)
           \/ /\ messages[i].from = "user"
              /\ SendChat(SubSeq(edited, 1, i) \o <<LoadingMessage(gen + 1)>>)
        /\ UNCHANGED <<mounted, mounts>>

HandleDeleteMessage(i) ==
    /\ mounted /\ ~shown
    /\ UNCHANGED <<ctlVars, chatVars, requesting, streaming, uiVars, histVars>>
    /\ Commit(<<[op |-> "delete", key |-> KeyOf(messages[i])]>>, gen, gen)

HandleClearMessages ==
    /\ mounted /\ ~shown /\ messages # <<>>
    /\ editing' = NoKey
    /\ UNCHANGED <<ctlVars, chatVars, requesting, streaming, mounted, made,
                   mounts, histVars>>
    /\ Commit(<<Set(<<>>)>>, gen, gen)

\* Mutant: the stop is queued under the generation it ends.
StopGenerationLate ==
    /\ mounted /\ shown
    /\ gen' = gen + 1
    /\ DiscardPending(gen + 1)
    /\ CancelSource
    /\ streaming' = FALSE /\ requesting' = FALSE
    /\ calls' = {}
    /\ intact' = FALSE
    /\ Commit(Flushed(gen) \o <<Upd("stopped", gen)>>, gen, gen + 1)
    /\ UNCHANGED <<waits, uiVars, recv, cut, lost>>

StopGeneration ==
    /\ mounted /\ shown
    /\ gen' = gen + 1
    /\ DiscardPending(gen + 1)
    /\ CancelSource
    /\ streaming' = FALSE /\ requesting' = FALSE
    /\ calls' = {}
    /\ intact' = FALSE
    /\ Commit(Flushed(gen) \o <<Upd("stopped", gen + 1)>>,
              IF Flushed(gen) = <<>> THEN gen + 1 ELSE gen, gen + 1)
    /\ UNCHANGED <<waits, uiVars, recv, cut, lost>>

-----------------------------------------------------------------------------
(* The stream controller.                                                  *)

\* Mutant: headers of a superseded send still open a source.
HeadersReadyUnfenced(w) ==
    /\ w \in waits
    /\ waits' = waits \ {w}
    /\ source' = w
    /\ open' = open \cup {[cg |-> w.cg, gen |-> w.gen, pos |-> 0]}
    /\ streaming' = TRUE
    /\ UNCHANGED <<cgen, chatVars, requesting, shown, msgVars, uiVars, histVars>>

HeadersReady(w) ==
    /\ w \in waits
    /\ waits' = waits \ {w}
    /\ IF w.cg # cgen THEN UNCHANGED <<source, open, streaming>>
       ELSE /\ source' = w
            /\ open' = open \cup {[cg |-> w.cg, gen |-> w.gen, pos |-> 0]}
            /\ streaming' = TRUE
    /\ UNCHANGED <<cgen, chatVars, requesting, shown, msgVars, uiVars, histVars>>

HeadersFail(w) ==
    /\ w \in waits
    /\ waits' = waits \ {w}
    /\ IF w.cg # cgen
       THEN UNCHANGED <<pending, timer, requesting, queue, messages, latest,
                        saveTimer, storage>>
       ELSE FailGeneration(w.gen)
    /\ UNCHANGED <<cgen, source, open, gen, calls, streaming, shown, uiVars,
                   histVars>>

IsCurrent(s) == s.cg = cgen /\ source = [cg |-> s.cg, gen |-> s.gen]

\* handleStreamUpdate buffers the delta and arms the flush timer.
SourceDelta(s) ==
    LET d == Script[s.pos + 1]
    IN  /\ s \in open /\ s.pos < Len(Script)
        /\ open' = (open \ {s}) \cup {[s EXCEPT !.pos = @ + 1]}
        /\ IF IsCurrent(s) /\ s.gen = gen /\ pending.gen = s.gen
           THEN /\ pending' = [pending EXCEPT
                                !.text[d.type] = MergePending(@, d.text),
                                !.src = @ \cup {s.gen}]
                /\ timer' = IF timer = 0 THEN s.gen ELSE timer
                /\ recv' = [recv EXCEPT ![d.type] = @ \o d.text]
           ELSE UNCHANGED <<pending, timer, recv>>
        /\ UNCHANGED <<cgen, waits, source, gen, calls, flagVars, msgVars, uiVars,
                       intact, cut, lost>>

\* Mutant: the flag stays on.
CloseActiveKeepsFlag(s) ==
    /\ open' = open \ {s}
    /\ source' = IF IsCurrent(s) THEN NoSource ELSE source
    /\ UNCHANGED streaming

CloseActive(s) ==
    /\ open' = open \ {s}
    /\ source' = IF IsCurrent(s) THEN NoSource ELSE source
    /\ streaming' = IF IsCurrent(s) THEN FALSE ELSE streaming

\* Mutant: the end of the stream does not flush the buffer.
SourceDoneUnflushed(s) ==
    /\ s \in open /\ s.pos = Len(Script) /\ IsCurrent(s)
    /\ CloseActive(s)
    /\ requesting' = FALSE
    /\ Enqueue(<<Upd("complete", s.gen)>>)
    /\ UNCHANGED <<cgen, waits, gen, calls, pending, timer, shown, uiVars, histVars>>

SourceDone(s) ==
    /\ s \in open /\ s.pos = Len(Script) /\ IsCurrent(s)
    /\ CloseActive(s)
    /\ IF s.gen # gen
       THEN UNCHANGED <<pending, timer, requesting, queue, messages, latest,
                        saveTimer, storage>>
       ELSE /\ FlushState(s.gen)
            /\ requesting' = FALSE
            /\ Enqueue(Flushed(s.gen) \o <<Upd("complete", s.gen)>>)
    /\ UNCHANGED <<cgen, waits, gen, calls, shown, uiVars, histVars>>

\* An error event, a status other than 200, a delta that is no JSON, or a
\* source that cannot be started.
SourceError(s) ==
    /\ s \in open /\ IsCurrent(s)
    /\ CloseActive(s)
    /\ FailGeneration(s.gen)
    /\ UNCHANGED <<cgen, waits, gen, calls, shown, uiVars, histVars>>

\* The connection ends with status 200 and no [DONE]: no handler reacts.
SourceCut(s) ==
    /\ s \in open
    /\ open' = open \ {s}
    /\ cut' = TRUE
    /\ UNCHANGED <<cgen, waits, source, chatVars, flagVars, msgVars, uiVars, recv,
                   intact, lost>>

-----------------------------------------------------------------------------
(* Requests without streaming, timers, rendering.                          *)

TextOf(ds) ==
    FoldLeft(LAMBDA acc, d : [acc EXCEPT ![d.type] = @ \o d.text], NoText, ds)

FullText == TextOf(Script)

ChatCompletion(g) ==
    /\ g \in calls
    /\ calls' = {}
    /\ requesting' = FALSE
    /\ recv' = FullText
    /\ Enqueue(<<[op |-> "answer", gen |-> g, text |-> FullText]>>)
    /\ UNCHANGED <<ctlVars, gen, pending, timer, streaming, shown, uiVars, intact,
                   cut, lost>>

ChatCompletionFails(g) ==
    /\ g \in calls
    /\ calls' = {}
    /\ FailGeneration(g)
    /\ UNCHANGED <<ctlVars, gen, streaming, shown, uiVars, histVars>>

FlushTimer ==
    /\ mounted /\ timer # 0
    /\ FlushState(timer)
    /\ IF Flushed(timer) = <<>> THEN UNCHANGED <<queue, messages, latest, saveTimer,
                                                 storage>>
       ELSE Enqueue(Flushed(timer))
    /\ UNCHANGED <<ctlVars, gen, calls, flagVars, uiVars, histVars>>

\* Mutant: rendered messages are not scheduled to be saved.
RenderUnsaved ==
    /\ mounted
    /\ queue # <<>> \/ shown # (requesting \/ streaming)
    /\ messages' = RunUpdates(queue, messages, gen)
    /\ queue' = <<>>
    /\ latest' = messages'
    /\ shown' = (requesting \/ streaming)
    /\ UNCHANGED <<ctlVars, chatVars, requesting, streaming, saveTimer, storage,
                   uiVars, histVars>>

Render ==
    /\ mounted
    /\ queue # <<>> \/ shown # (requesting \/ streaming)
    /\ messages' = RunUpdates(queue, messages, gen)
    /\ queue' = <<>>
    /\ latest' = messages'
    /\ saveTimer' = (saveTimer \/ \E i \in DOMAIN queue : queue[i].op # "set")
    /\ shown' = (requesting \/ streaming)
    /\ UNCHANGED <<ctlVars, chatVars, requesting, streaming, storage, uiVars,
                   histVars>>

SaveTimer ==
    /\ mounted /\ saveTimer
    /\ saveTimer' = FALSE
    /\ storage' = Trim(latest)
    /\ UNCHANGED <<ctlVars, chatVars, flagVars, queue, messages, latest, uiVars,
                   histVars>>

-----------------------------------------------------------------------------
(* The page.                                                               *)

Leave ==
    /\ mounted /\ mounted' = FALSE
    /\ gen' = gen + 1
    /\ CancelSource
    /\ waits' = {} /\ calls' = {}
    /\ DiscardPending(gen + 1)
    /\ requesting' = FALSE /\ streaming' = FALSE /\ shown' = FALSE
    /\ queue' = <<>> /\ messages' = <<>> /\ latest' = <<>> /\ saveTimer' = FALSE
    /\ editing' = NoKey
    /\ recv' = NoText /\ intact' = FALSE /\ cut' = FALSE
    /\ UNCHANGED <<made, mounts, lost>>

\* Another page of the application: the effects are cleaned up.
Unmount ==
    /\ Leave
    /\ storage' = IF saveTimer THEN Trim(latest) ELSE storage

\* The tab is closed, reloaded or dies: they are not.
Crash == Leave /\ UNCHANGED storage

\* The conversation is loaded in the first task after the page is mounted.
Mount ==
    LET loaded == Load(storage)
    IN  /\ ~mounted /\ mounts < MaxMounts
        /\ mounted' = TRUE /\ mounts' = mounts + 1
        /\ messages' = loaded /\ latest' = loaded
        /\ storage' = loaded
        /\ UNCHANGED <<ctlVars, chatVars, flagVars, queue, saveTimer, editing, made,
                       histVars>>

Init ==
    /\ gen = 0 /\ cgen = 0 /\ waits = {} /\ source = NoSource /\ open = {}
    /\ calls = {} /\ pending = [gen |-> 0, text |-> NoText, src |-> {}] /\ timer = 0
    /\ requesting = FALSE /\ streaming = FALSE /\ shown = FALSE
    /\ queue = <<>> /\ messages = <<>> /\ latest = <<>> /\ saveTimer = FALSE
    /\ storage = <<>>
    /\ editing = NoKey /\ mounted = FALSE /\ made = 0 /\ mounts = 0
    /\ recv = NoText /\ intact = FALSE /\ cut = FALSE /\ lost = FALSE

Next ==
    \/ HandleSendMessage
    \/ \E i \in DOMAIN messages : HandleRegenerateMessage(i)
    \/ \E i \in DOMAIN messages : HandleEditMessage(i)
    \/ HandleEditOpenChange
    \/ ApplyEdit
    \/ \E i \in DOMAIN messages : HandleDeleteMessage(i)
    \/ HandleClearMessages
    \/ StopGeneration
    \/ \E w \in waits : HeadersReady(w)
    \/ \E w \in waits : HeadersFail(w)
    \/ \E s \in open : SourceDelta(s)
    \/ \E s \in open : SourceDone(s)
    \/ \E s \in open : SourceError(s)
    \/ \E s \in open : SourceCut(s)
    \/ \E g \in calls : ChatCompletion(g)
    \/ \E g \in calls : ChatCompletionFails(g)
    \/ FlushTimer
    \/ Render
    \/ SaveTimer
    \/ Unmount
    \/ Crash
    \/ Mount

Spec == Init /\ [][Next]_vars

\* Header requests, upstream answers and connections end; timers fire and
\* React renders.
FairSpec ==
    /\ Spec
    /\ WF_vars(\E w \in waits : HeadersReady(w) \/ HeadersFail(w))
    /\ WF_vars(\E s \in open : SourceDelta(s) \/ SourceDone(s) \/ SourceError(s)
                               \/ SourceCut(s))
    /\ WF_vars(\E g \in calls : ChatCompletion(g) \/ ChatCompletionFails(g))
    /\ WF_vars(FlushTimer)
    /\ WF_vars(Render)
    /\ WF_vars(SaveTimer)

-----------------------------------------------------------------------------
(* Properties.                                                             *)

\* The letters a text is made of.
Letters == {"error", "edited"} \cup UNION {Range(d.text) : d \in Range(Script)}
Text == [reasoning : Seq(Letters), content : Seq(Letters)]
Message ==
    [from : {"user", "assistant"}, req : Nat,
     status : {"none", "loading", "streaming", "complete", "error"},
     text : Text, src : SUBSET Nat]

\* The variables have the shapes the hooks give them.
ControlType ==
    /\ gen \in Nat /\ cgen \in Nat /\ calls \subseteq Nat /\ timer \in Nat
    /\ source \in [cg : Nat, gen : Nat]
    /\ waits \subseteq [cg : Nat, gen : Nat]
    /\ open \subseteq [cg : Nat, gen : Nat, pos : 0..Len(Script)]
    /\ pending \in [gen : Nat, text : Text, src : SUBSET Nat]
    /\ requesting \in BOOLEAN /\ streaming \in BOOLEAN /\ shown \in BOOLEAN
    /\ mounted \in BOOLEAN

TypeOK ==
    /\ ControlType
    /\ {saveTimer, intact, cut, lost} \subseteq BOOLEAN
    /\ \A ms \in {messages, latest, storage} : ms \in Seq(Message)
    /\ recv \in Text

\* Whatever the user does and whenever headers arrive, at most one request to
\* the upstream is waiting or running, and it is the one of the generation on
\* display: no answer is generated, and paid for, that nobody reads.
AtMostOneRequest ==
    LET live == {w \in waits : w.cg = cgen}
    IN  /\ Cardinality(live) + Cardinality(open) + Cardinality(calls) <= 1
        /\ \A x \in live \cup open : x.gen = gen
        /\ calls \subseteq {gen}

\* Buffered text always has a flush timer, and it is one of the current
\* generation: flushStreamUpdates leaves the timer of another generation set,
\* which would stop every later flush.
BufferIsArmed ==
    /\ timer # 0 => timer = gen
    /\ pending.text # NoText => timer = gen /\ pending.gen = gen

\* No message, shown or stored, holds text or an error of an answer other
\* than the one it was created for, across stop, regenerate, edit and reload.
NoForeignText ==
    \A ms \in {messages, latest, storage} :
        \A i \in DOMAIN ms : ms[i].src \subseteq {ms[i].req}

\* When nothing is generated and every update has been rendered no message is
\* left loading or streaming, unless an edit was saved over a queued update.
NoSpinnerLeft ==
    ~lost /\ queue = <<>> /\ ~requesting /\ ~streaming =>
        \A i \in DOMAIN messages : ~IsPending(messages[i])

\* An answer that ran to [DONE] shows exactly the text received for it, unless
\* the user stopped it or saved an edit while an update was queued.
CompletedIsWhole ==
    intact /\ queue = <<>> /\ messages # <<>> /\ Last(messages).req = gen
           /\ Last(messages).status = "complete"
        => Last(messages).text = recv

\* While an answer streams, and no delta is buffered or queued, its message
\* holds the full raw text received.
FullRawContent ==
    intact /\ queue = <<>> /\ pending.text = NoText /\ messages # <<>>
           /\ Last(messages).req = gen /\ Last(messages).status = "streaming"
        => Last(messages).text = recv

\* Wherever the tab dies, the conversation in storage loads with no message
\* loading or streaming, although only one of them is repaired.
ReloadIsSettled ==
    LET loaded == Load(storage)
    IN  ~lost => \A i \in DOMAIN loaded : ~IsPending(loaded[i])

\* Every generation ends, unless its connection ends without [DONE].
EveryGenerationEnds ==
    (requesting \/ streaming) ~> (~(requesting \/ streaming) \/ cut)

\* What is shown is in storage again and again, however often the debounced
\* save is postponed.
StorageCatchesUp ==
    []<>(~mounted \/ storage = Trim(messages))

-----------------------------------------------------------------------------
(* What the proofs need to know of every state.                            *)

\* The sends whose headers would still open a source.
Live == {w \in waits : w.cg = cgen}

\* The controller and the chat handler agree on the generation: whatever is
\* live belongs to it, and a send excludes a source and a plain request.
RequestInv ==
    /\ \A w \in waits : w.cg <= cgen /\ (w.cg = cgen => w.gen = gen)
    /\ \A s \in open : s.cg = cgen /\ s.gen = gen
                        /\ source = [cg |-> cgen, gen |-> gen]
    /\ \A s, t \in open : s = t
    /\ calls \subseteq {gen}
    /\ Live # {} => open = {} /\ calls = {}
    /\ open # {} => calls = {}

\* Which flags go with what is under way, and what has not been rendered.
FlagInv ==
    /\ Live # {} \/ calls # {} => requesting /\ ~streaming
    /\ open # {} \/ pending.text # NoText => streaming
    /\ requesting \/ streaming => shown
    /\ shown => mounted
    /\ ~shown => queue = <<>>

ControlInv == RequestInv /\ BufferIsArmed /\ FlagInv

\* A conversation in which every text is its own message's.
Clean(ms) ==
    \A i \in DOMAIN ms :
        /\ ms[i].src \subseteq {ms[i].req}
        /\ ms[i].from = "user" => ms[i].status = "none"

\* Only the last message may be waiting for its answer.
Behind(ms) == \A i \in 1..Len(ms) - 1 : ~IsPending(ms[i])
Settled(ms) == \A i \in DOMAIN ms : ~IsPending(ms[i])

\* The last message is the one that the updates of generation g are meant for.
Awaits(ms, g) == ms # <<>> /\ Last(ms).from = "assistant" /\ Last(ms).req = g

\* An update that is queued in generation g.
Updates(g) ==
    [op : {"set"}, msgs : Seq(Message)]
      \cup [op : {"chunk"}, gen : {g}, text : Text, src : SUBSET {g}]
      \cup [op : {"complete", "stopped", "answer", "error"}, gen : {g}, text : Text]

\* The messages once every queued update has been run.
View == RunUpdates(queue, messages, gen)

QueueInv ==
    /\ queue \in Seq(Updates(gen))
    /\ \A i \in DOMAIN queue : queue[i].op = "set" =>
          Clean(queue[i].msgs) /\ Awaits(queue[i].msgs, gen)
            /\ (~lost => Behind(queue[i].msgs))

\* Messages stay clean, and only the last is pending: that is what makes the
\* repair of one message on loading enough.
ConversationInv ==
    /\ pending.src \subseteq {pending.gen}
    /\ \A ms \in {messages, latest, storage} : Clean(ms) /\ (~lost => Behind(ms))
    /\ shown => Awaits(messages, gen)
    /\ ~lost /\ ~requesting /\ ~streaming => Settled(View)

ChatInv == ControlInv /\ QueueInv /\ ConversationInv

\* Conversations without a message of a generation after g.
Dated(g) == Seq({m \in Message : m.req <= g})

KnownInv ==
    /\ \A ms \in {messages, latest, storage} : ms \in Dated(gen)
    /\ \A i \in DOMAIN queue : queue[i].op = "set" => queue[i].msgs \in Dated(gen)

\* The text of the deltas i + 1 to k.
Part(i, k) == TextOf(SubSeq(Script, i + 1, k))

\* Scripts in which nothing is taken for a repetition, however the deltas are
\* divided into flushes: no delta starts with a run of text right before it,
\* and no run of deltas starts with all the text before it.
NoEcho ==
    \A t \in {"reasoning", "content"} : \A i, j, k \in 0..Len(Script) :
        i <= j /\ j <= k /\ (i = 0 \/ k = j + 1) /\ Part(i, j)[t] # <<>> =>
            ~IsPrefix(Part(i, j)[t], Part(j, k)[t])

\* The message of an answer that did not fail: its text and the buffer p are
\* what was received.
IsAnswer(m, g) == m.from = "assistant" /\ m.req = g
Whole(m, g, p, r) ==
    IsAnswer(m, g) /\ m.status # "error" =>
        /\ m.text.reasoning \o p.reasoning = r.reasoning
        /\ m.text.content \o p.content = r.content

\* The first i deltas are in the message and those up to k in the buffer.
InStep(m, p, r, i, k) ==
    IsPending(m) /\ m.text = Part(0, i) /\ p = Part(i, k) /\ r = Part(0, k)

Streams(m, p, r, os, on) ==
    \E i, k \in 0..Len(Script) :
        /\ i <= k /\ InStep(m, p, r, i, k)
        /\ \A s \in os : s.pos = k
        /\ ~on => k = 0

\* While nothing disturbed the answer of generation g, its message is the only
\* one it may go to, and lacks only what is buffered.
Following(ms, g, p, r, os, on) ==
    /\ \A i \in 1..Len(ms) - 1 : ~IsAnswer(ms[i], g)
    /\ Streams(Last(ms), p, r, os, on)

WholeInv ==
    /\ pending.gen = gen
    /\ intact =>
        /\ mounted
        /\ \A i \in DOMAIN View : Whole(View[i], gen, pending.text, recv)
        /\ requesting \/ streaming =>
              Following(View, gen, pending.text, recv, open, streaming)

-----------------------------------------------------------------------------

\* Stopping keeps the text received before.
StopKeepsText ==
    [][StopGeneration => messages' # <<>> /\ Last(messages').text = recv]_vars
=============================================================================
