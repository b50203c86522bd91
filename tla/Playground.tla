----------------------------- MODULE Playground -----------------------------
(***************************************************************************)
(* The chat page of the web client (web/default/src/features/playground):  *)
(* conversations, the requests that fill their last message, the chunks    *)
(* that wait for a flush timer, the stop button, the message editor, and   *)
(* a reload of the page at any moment.                                     *)
(*                                                                         *)
(* JavaScript runs one event at a time: an action is one event.  What an   *)
(* event changes is drawn before the next click when the event was itself  *)
(* a click, and some time later when it was a timer or an answer of the    *)
(* network: view is the last drawing, and every handler of a click works   *)
(* on the messages and on the isGenerating of that drawing.  A callback of *)
(* a request keeps the conversation that was active when it was sent.      *)
(*                                                                         *)
(* The text of a message, its content and its reasoning, is the set of the *)
(* requests that contributed to it, UserText standing for text that is not *)
(* an answer's (a prompt, an edited text, an error).  What replaces the    *)
(* content keeps the reasoning, so contributors stay.  How chunks make a   *)
(* text is module StreamText.                                              *)
(***************************************************************************)
EXTENDS Naturals, Sequences, FiniteSets

CONSTANTS
  Ids,          \* conversation ids
  NoId,         \* no conversation
  MaxRequests,  \* bound on the requests sent
  MaxMessages,  \* bound on the messages of a conversation
  MaxEdits      \* bound on the messages opened in the editor or deleted

ASSUME PlaygroundAssumption == /\ NoId \notin Ids /\ Ids # {}
                               /\ MaxRequests \in Nat \ {0} /\ MaxMessages \in Nat /\ MaxEdits \in Nat

UserText == 0
Requests == 1 .. MaxRequests
NoSource == [req |-> 0, sid |-> NoId, live |-> FALSE]
NoKey == <<0, "none">>

VARIABLES
  sessions,     \* the conversations, newest first; localStorage has the same
  active,       \* activeSessionId
  source,       \* sseSourceRef: its request, its conversation, still connected
  http,         \* plain requests under way: request, conversation, aborted
  controller,   \* abortControllerRef: the request it aborts, 0 if null
  requestId,    \* requestIdRef: the last plain request
  pending,      \* pendingStreamChunksRef: the requests whose chunks wait
  timer,        \* streamFlushTimerRef: the conversation it flushes to, or NoId
  isStreaming, isRequesting,
  editing,      \* editingMessageKey
  edits,        \* messages opened in the editor or deleted so far
  view,         \* the last drawing: messages, generating
  lastRequest,  \* the requests so far, 1 standing for those of earlier visits
  overlapped,   \* history: requests under way at the same time as another
  broken,       \* history: a request failed on an event that had more with it
  staleSave     \* history: an edit was saved over messages not yet drawn

stream == <<source, isStreaming>>
plain == <<http, controller, requestId>>
buffer == <<pending, timer>>
history == <<overlapped, broken, staleSave>>
bound == <<lastRequest, edits>>
vars == <<sessions, active, stream, plain, buffer, isRequesting, editing, view,
          bound, history>>

-----------------------------------------------------------------------------
(* Messages. *)

\* Array.filter: what is at the positions of keep, in their order.
Filtered(s, keep) ==
  LET f[n \in 0 .. Len(s)] == IF n = 0 THEN << >>
                              ELSE IF n \in keep THEN Append(f[n - 1], s[n]) ELSE f[n - 1]
  IN  f[Len(s)]

Key(m) == <<m.req, m.from>>
createUserMessage(r) == [req |-> r, from |-> "user", status |-> "none", has |-> {UserText}]
createLoadingAssistantMessage(r) ==
  [req |-> r, from |-> "assistant", status |-> "loading", has |-> {}]

IsPending(m) == m.from = "assistant" /\ m.status \in {"loading", "streaming"}
hasContent(m) == m.has # {}

\* The messages change only when the last one is an assistant's.
updateLastAssistantMessage(ms, update(_)) ==
  IF ms # << >> /\ ms[Len(ms)].from = "assistant"
  THEN [ms EXCEPT ![Len(ms)] = update(@)] ELSE ms

applyStreamingChunk(m, reqs) ==
  IF m.status = "error" THEN m
  ELSE [m EXCEPT !.has = @ \cup reqs, !.status = "streaming"]

flushed(ms) ==
  IF pending = {} THEN ms
  ELSE updateLastAssistantMessage(ms, LAMBDA m : applyStreamingChunk(m, pending))

withError(ms) ==
  updateLastAssistantMessage(ms, LAMBDA m :
    [m EXCEPT !.has = @ \cup {UserText}, !.status = "error"])

completed(ms) ==
  updateLastAssistantMessage(ms, LAMBDA m :
    IF IsPending(m) THEN [m EXCEPT !.status = "complete"] ELSE m)

\* applyChatCompletionResponse: the answer replaces the content, and the reasoning if
\* it brings one.
answered(ms, r) ==
  updateLastAssistantMessage(ms, LAMBDA m :
    [m EXCEPT !.has = @ \cup {r}, !.status = "complete"])

\* Only the last pending message is brought to an end.
sanitizeMessagesOnLoad(ms) ==
  LET at == {i \in 1 .. Len(ms) : IsPending(ms[i])}
      target == CHOOSE i \in at : \A j \in at : j <= i
      m == ms[target]
  IN  IF at = {} THEN ms
      ELSE [ms EXCEPT ![target] =
              IF hasContent(m) THEN [m EXCEPT !.status = "complete"]
              ELSE [m EXCEPT !.status = "error", !.has = {UserText}]]

-----------------------------------------------------------------------------
(* Conversations and what is drawn of them. *)

Exists(id) == \E i \in 1 .. Len(sessions) : sessions[i].id = id
MessagesIn(ss, id) ==
  IF \E i \in 1 .. Len(ss) : ss[i].id = id
  THEN ss[CHOOSE i \in 1 .. Len(ss) : ss[i].id = id].messages ELSE << >>
Messages == MessagesIn(sessions, active)

\* The updater of updateMessages, bound to conversation id.
updateMessages(ss, id, update(_)) ==
  [i \in 1 .. Len(ss) |->
     IF ss[i].id = id THEN [ss[i] EXCEPT !.messages = update(@)] ELSE ss[i]]

Generating == isStreaming \/ isRequesting

Drawn == view' = [messages |-> MessagesIn(sessions', active'),
                  generating |-> isStreaming' \/ isRequesting']
NotDrawn == UNCHANGED <<active, editing, view, bound>>

Running == ({source.req} \ {0}) \cup {h.req : h \in {x \in http : ~x.aborted}}
Overlap(r) == IF Running = {} THEN {} ELSE Running \cup {r}

-----------------------------------------------------------------------------
(* Requests. *)

\* sendStreamingChat: source.stream() may throw; chunks that wait stay.
sendStreamingChat(r, ms, started) ==
  /\ IF started
     THEN /\ source' = [req |-> r, sid |-> active, live |-> TRUE]
          /\ isStreaming' = TRUE /\ isRequesting' = TRUE
          /\ sessions' = updateMessages(sessions, active, LAMBDA old : ms)
          /\ UNCHANGED buffer
     ELSE /\ source' = NoSource
          /\ isStreaming' = FALSE /\ isRequesting' = FALSE
          /\ sessions' = updateMessages(sessions, active, LAMBDA old : withError(flushed(ms)))
          /\ pending' = {} /\ timer' = NoId
  /\ UNCHANGED plain

\* sendNonStreamingChat up to its await.
sendNonStreamingChat(r, ms) ==
  /\ http' = http \cup {[req |-> r, sid |-> active, aborted |-> FALSE]}
  /\ controller' = r /\ requestId' = r
  /\ isRequesting' = TRUE
  /\ sessions' = updateMessages(sessions, active, LAMBDA old : ms)
  /\ UNCHANGED <<stream, buffer>>

sendChat(ms) ==
  /\ \/ \E started \in BOOLEAN : sendStreamingChat(lastRequest + 1, ms, started)
     \/ sendNonStreamingChat(lastRequest + 1, ms)
  /\ lastRequest' = lastRequest + 1
  /\ overlapped' = overlapped \cup Overlap(lastRequest + 1)
  /\ UNCHANGED <<active, edits, broken>>
  /\ Drawn

-----------------------------------------------------------------------------
(* Clicks.  Every button but the editor's is disabled while isGenerating. *)

HandleSendMessage ==
  /\ ~view.generating /\ lastRequest < MaxRequests
  /\ Len(view.messages) + 2 <= MaxMessages
  /\ LET r == lastRequest + 1
     IN  sendChat(view.messages \o <<createUserMessage(r), createLoadingAssistantMessage(r)>>)
  /\ UNCHANGED <<editing, staleSave>>

\* The messages up to a prompt, or before an answer, and a new answer.
HandleRegenerateMessage(i) ==
  /\ ~view.generating /\ lastRequest < MaxRequests
  /\ LET m == view.messages[i]
         kept == SubSeq(view.messages, 1, IF m.from = "user" THEN i ELSE i - 1)
     IN  /\ hasContent(m) /\ ~IsPending(m)
         /\ sendChat(Append(kept, createLoadingAssistantMessage(lastRequest + 1)))
  /\ UNCHANGED <<editing, staleSave>>

HandleEditMessage(i) ==
  /\ ~view.generating
  /\ edits < MaxEdits /\ edits' = edits + 1
  /\ hasContent(view.messages[i])
  /\ editing' = Key(view.messages[i])
  /\ UNCHANGED <<sessions, active, stream, plain, buffer, isRequesting, lastRequest, history>>
  /\ Drawn

HandleEditOpenChange ==
  /\ editing # NoKey
  /\ editing' = NoKey
  /\ UNCHANGED <<sessions, active, stream, plain, buffer, isRequesting, bound, history>>
  /\ Drawn

\* The editor of message i is saved: nothing asks whether an answer is under way,
\* and the messages of the last drawing replace those of the conversation.
ApplyEdit(i, shouldSubmit) ==
  /\ Key(view.messages[i]) = editing
  /\ editing' = NoKey
  /\ staleSave' = (staleSave \/ view.messages # Messages)
  /\ LET updated == [view.messages EXCEPT ![i].has = @ \cup {UserText}]
     IN  IF shouldSubmit
         THEN /\ view.messages[i].from = "user" /\ lastRequest < MaxRequests
              /\ sendChat(Append(SubSeq(updated, 1, i),
                                 createLoadingAssistantMessage(lastRequest + 1)))
         ELSE /\ sessions' = updateMessages(sessions, active, LAMBDA old : updated)
              /\ UNCHANGED <<active, stream, plain, buffer, isRequesting, bound,
                             overlapped, broken>>
              /\ Drawn

HandleDeleteMessage(i) ==
  /\ ~view.generating
  /\ edits < MaxEdits /\ edits' = edits + 1
  /\ sessions' = updateMessages(sessions, active, LAMBDA old :
                   Filtered(old, {j \in 1 .. Len(old) : Key(old[j]) # Key(view.messages[i])}))
  /\ UNCHANGED <<active, stream, plain, buffer, isRequesting, editing, lastRequest, history>>
  /\ Drawn

HandleClearMessages ==
  /\ ~view.generating /\ view.messages # << >>
  /\ editing' = NoKey
  /\ sessions' = updateMessages(sessions, active, LAMBDA old : << >>)
  /\ UNCHANGED <<active, stream, plain, buffer, isRequesting, bound, history>>
  /\ Drawn

\* A fresh nanoid: no conversation has it and no callback knows it.
Fresh(id) == /\ ~Exists(id) /\ id # timer /\ id # source.sid
             /\ \A h \in http : h.sid # id

CreateNewSession(id) ==
  /\ ~view.generating /\ Fresh(id)
  /\ sessions' = <<[id |-> id, messages |-> << >>]>> \o sessions
  /\ active' = id
  /\ UNCHANGED <<stream, plain, buffer, isRequesting, editing, bound, history>>
  /\ Drawn

SwitchSession(id) ==
  /\ ~view.generating /\ Exists(id) /\ id # active
  /\ active' = id
  /\ UNCHANGED <<sessions, stream, plain, buffer, isRequesting, editing, bound, history>>
  /\ Drawn

\* The last conversation that goes is replaced by an empty one.
DeleteSession(id, fresh) ==
  /\ ~view.generating /\ Exists(id)
  /\ LET remaining == Filtered(sessions, {j \in 1 .. Len(sessions) : sessions[j].id # id})
     IN  \/ remaining # << >> /\ sessions' = remaining
         \/ /\ remaining = << >> /\ Fresh(fresh)
            /\ sessions' = <<[id |-> fresh, messages |-> << >>]>>
  /\ active' = IF active = id THEN sessions'[1].id ELSE active
  /\ UNCHANGED <<stream, plain, buffer, isRequesting, editing, bound, history>>
  /\ Drawn

\* Mutant: the chunks that wait are left to their timer.
StopKeepsBuffer ==
  /\ view.generating
  /\ source' = NoSource /\ isStreaming' = FALSE
  /\ http' = {IF h.req = controller THEN [h EXCEPT !.aborted = TRUE] ELSE h : h \in http}
  /\ controller' = 0
  /\ isRequesting' = FALSE
  /\ sessions' = updateMessages(sessions, active, completed)
  /\ UNCHANGED <<active, requestId, buffer, editing, bound, history>>
  /\ Drawn

\* Mutant: the text that came is shown and the message left as it is.
StopLeavesUnfinished ==
  /\ view.generating
  /\ source' = NoSource /\ isStreaming' = FALSE
  /\ pending' = {} /\ timer' = NoId
  /\ http' = {IF h.req = controller THEN [h EXCEPT !.aborted = TRUE] ELSE h : h \in http}
  /\ controller' = 0
  /\ isRequesting' = FALSE
  /\ sessions' = updateMessages(sessions, active, flushed)
  /\ UNCHANGED <<active, requestId, editing, bound, history>>
  /\ Drawn

\* The stop button is there while isGenerating.
StopGeneration ==
  /\ view.generating
  /\ source' = NoSource /\ isStreaming' = FALSE
  /\ pending' = {} /\ timer' = NoId
  /\ http' = {IF h.req = controller THEN [h EXCEPT !.aborted = TRUE] ELSE h : h \in http}
  /\ controller' = 0
  /\ isRequesting' = FALSE
  /\ sessions' = updateMessages(sessions, active, LAMBDA old : completed(flushed(old)))
  /\ UNCHANGED <<active, requestId, editing, bound, history>>
  /\ Drawn

-----------------------------------------------------------------------------
(* Events of the source, answers of plain requests, the timer, the drawing. *)

\* handleStreamUpdate: the first chunk that waits sets the timer.
HandleStreamUpdate ==
  /\ source.live
  /\ pending' = pending \cup {source.req}
  /\ timer' = IF timer = NoId THEN source.sid ELSE timer
  /\ UNCHANGED <<sessions, stream, plain, isRequesting, history>>
  /\ NotDrawn

\* The timer of 50 ms: flushStreamUpdates.
FlushTimer ==
  /\ timer # NoId
  /\ sessions' = updateMessages(sessions, timer, flushed)
  /\ pending' = {} /\ timer' = NoId
  /\ UNCHANGED <<stream, plain, isRequesting, history>>
  /\ NotDrawn

\* [DONE]: the source is closed, then handleStreamComplete.
HandleStreamComplete ==
  /\ source.live
  /\ source' = NoSource /\ isStreaming' = FALSE
  /\ sessions' = updateMessages(sessions, source.sid, LAMBDA old : completed(flushed(old)))
  /\ pending' = {} /\ timer' = NoId
  /\ isRequesting' = FALSE
  /\ UNCHANGED <<plain, history>>
  /\ NotDrawn

\* Mutant: the page goes on waiting after an error.
ErrorKeepsWaiting(more) ==
  /\ source.live
  /\ sessions' = updateMessages(sessions, source.sid, LAMBDA old : withError(flushed(old)))
  /\ source' = NoSource /\ isStreaming' = FALSE
  /\ pending' = (IF more THEN {source.req} ELSE {})
  /\ timer' = IF more THEN source.sid ELSE NoId
  /\ broken' = (broken \/ more)
  /\ UNCHANGED <<plain, isRequesting, overlapped, staleSave>>
  /\ NotDrawn

\* An error event, or an event that cannot be parsed: handleStreamError, then the
\* source is closed.  Events that came with the unparsable one are still handed
\* out: a chunk among them waits for a timer of its own.
HandleStreamError(more) ==
  /\ source.live
  /\ sessions' = updateMessages(sessions, source.sid, LAMBDA old : withError(flushed(old)))
  /\ source' = NoSource /\ isStreaming' = FALSE
  /\ isRequesting' = FALSE
  /\ pending' = (IF more THEN {source.req} ELSE {})
  /\ timer' = IF more THEN source.sid ELSE NoId
  /\ broken' = (broken \/ more)
  /\ UNCHANGED <<plain, overlapped, staleSave>>
  /\ NotDrawn

\* The connection ends without [DONE]: no listener takes note.
ConnectionEnds ==
  /\ source.live
  /\ source' = [source EXCEPT !.live = FALSE]
  /\ UNCHANGED <<sessions, isStreaming, plain, buffer, isRequesting, history>>
  /\ NotDrawn

\* Mutant: the finally of any request clears the state.
FinallyAlways(h, otherwise) ==
  /\ http' = http \ {h}
  /\ controller' = 0
  /\ isRequesting' = FALSE
  /\ UNCHANGED <<stream, requestId, history>>
  /\ NotDrawn

\* The finally of sendNonStreamingChat.
Finally(h, otherwise) ==
  /\ http' = http \ {h}
  /\ controller' = IF requestId = h.req THEN 0 ELSE controller
  /\ isRequesting' = IF requestId = h.req THEN FALSE ELSE otherwise
  /\ UNCHANGED <<stream, requestId, history>>
  /\ NotDrawn

\* Mutant: the answer of an aborted request is shown.
ResponseAlwaysShown(h) ==
  /\ sessions' = updateMessages(sessions, h.sid, LAMBDA old : answered(old, h.req))
  /\ Finally(h, isRequesting)
  /\ UNCHANGED buffer

ResponseArrives(h) ==
  /\ sessions' = IF h.aborted THEN sessions
                 ELSE updateMessages(sessions, h.sid, LAMBDA old : answered(old, h.req))
  /\ Finally(h, isRequesting)
  /\ UNCHANGED buffer

\* The request fails, is rejected because it was aborted, or brings no choice.
RequestFails(h) ==
  /\ IF h.aborted
     THEN UNCHANGED <<sessions, buffer>>
     ELSE /\ sessions' = updateMessages(sessions, h.sid, LAMBDA old : withError(flushed(old)))
          /\ pending' = {} /\ timer' = NoId
  /\ Finally(h, IF h.aborted THEN isRequesting ELSE FALSE)

\* React draws what has changed since the last drawing.
Render ==
  /\ view # [messages |-> Messages, generating |-> Generating]
  /\ UNCHANGED <<sessions, active, stream, plain, buffer, isRequesting, editing,
                 bound, history>>
  /\ Drawn

\* The page is reloaded, or closed and opened again, which ends its requests:
\* loadSessions.  A way to another page of the client and back is not this: the hooks
\* then clear only the flush timer, and the callbacks of what runs meet hooks that are
\* no longer mounted.
Reload ==
  /\ sessions' = [i \in 1 .. Len(sessions) |->
                    [sessions[i] EXCEPT !.messages = sanitizeMessagesOnLoad(@)]]
  /\ source' = NoSource /\ isStreaming' = FALSE
  /\ http' = {} /\ controller' = 0 /\ requestId' = 0
  /\ pending' = {} /\ timer' = NoId
  /\ isRequesting' = FALSE
  /\ editing' = NoKey
  /\ UNCHANGED <<active, bound, history>>
  /\ Drawn

-----------------------------------------------------------------------------
\* What an earlier visit has left: a prompt and its answer.
Stored == <<createUserMessage(1),
            [createLoadingAssistantMessage(1) EXCEPT !.status = "complete", !.has = {1}]>>

Init ==
  /\ active = CHOOSE id \in Ids : TRUE
  /\ sessions = <<[id |-> active, messages |-> Stored]>>
  /\ source = NoSource
  /\ http = {} /\ controller = 0 /\ requestId = 0
  /\ pending = {} /\ timer = NoId
  /\ isStreaming = FALSE /\ isRequesting = FALSE
  /\ editing = NoKey
  /\ view = [messages |-> Stored, generating |-> FALSE]
  /\ lastRequest = 1 /\ edits = 0
  /\ overlapped = {} /\ broken = FALSE /\ staleSave = FALSE

Click ==
  \/ HandleSendMessage
  \/ \E i \in 1 .. Len(view.messages) :
       \/ HandleRegenerateMessage(i)
       \/ HandleEditMessage(i)
       \/ \E shouldSubmit \in BOOLEAN : ApplyEdit(i, shouldSubmit)
       \/ HandleDeleteMessage(i)
  \/ HandleEditOpenChange
  \/ HandleClearMessages
  \/ \E id \in Ids : CreateNewSession(id) \/ SwitchSession(id)
  \/ \E id, fresh \in Ids : DeleteSession(id, fresh)
  \/ StopGeneration

SourceEnds == HandleStreamComplete \/ (\E more \in BOOLEAN : HandleStreamError(more))
                \/ ConnectionEnds
RequestEnds(r) == \E h \in http : h.req = r /\ (ResponseArrives(h) \/ RequestFails(h))

Next ==
  \/ Click
  \/ HandleStreamUpdate
  \/ FlushTimer
  \/ SourceEnds
  \/ \E r \in Requests : RequestEnds(r)
  \/ Render
  \/ Reload

Spec == Init /\ [][Next]_vars

\* The browser fires timers and draws; nobody has to click.  That a connection ends and
\* a plain request is answered or breaks is assumed of the network and the relay: the
\* client sets no timeout, and the relay's is off by default (RELAY_TIMEOUT = 0).
FairSpec ==
  /\ Spec
  /\ WF_vars(SourceEnds)
  /\ \A r \in Requests : WF_vars(RequestEnds(r))
  /\ WF_vars(FlushTimer) /\ WF_vars(Render)

-----------------------------------------------------------------------------
(* Properties. *)

Message == [req : Requests, from : {"user", "assistant"},
            status : {"none", "loading", "streaming", "complete", "error"},
            has : SUBSET (Requests \cup {UserText})]
Conversation == [id : Ids, messages : Seq(Message)]

TypeOK ==
  /\ sessions \in Seq(Conversation)
  /\ active \in Ids
  /\ source \in [req : Requests \cup {0}, sid : Ids \cup {NoId}, live : BOOLEAN]
  /\ http \subseteq [req : Requests, sid : Ids, aborted : BOOLEAN]
  /\ controller \in Requests \cup {0} /\ requestId \in Requests \cup {0}
  /\ pending \subseteq Requests /\ timer \in Ids \cup {NoId}
  /\ isStreaming \in BOOLEAN /\ isRequesting \in BOOLEAN
  /\ editing \in ((Requests \cup {0}) \X {"user", "assistant", "none"})
  /\ view \in [messages : Seq(Message), generating : BOOLEAN]
  /\ lastRequest \in Requests /\ edits \in 0 .. MaxEdits
  /\ overlapped \subseteq Requests /\ broken \in BOOLEAN
  /\ staleSave \in BOOLEAN

\* The refs of the two hooks agree: there is a source while isStreaming, requests
\* are told apart by their number, the controller belongs to the last plain request
\* and that one runs.  Unless the last request overlapped another, a plain request
\* that runs is the one the stop button aborts, and the page shows that it waits for
\* it: the finally of an aborted request takes neither from the next.
Wired ==
  /\ isStreaming <=> source # NoSource
  /\ source # NoSource => source.req \in 1 .. lastRequest
  /\ \A h \in http : h.req \in 1 .. lastRequest
  /\ \A h, k \in http : h.req = k.req => h = k
  /\ requestId \in 0 .. lastRequest /\ lastRequest \in Nat
  /\ controller # 0 =>
       controller = requestId /\ \E h \in http : h.req = controller /\ ~h.aborted
  /\ lastRequest \notin overlapped =>
       \A h \in http : ~h.aborted => h.req = controller /\ isRequesting /\ ~isStreaming

\* Conversations are told apart by their id, messages by their key, and the open
\* conversation is there.
Distinct ==
  /\ Exists(active)
  /\ \A i, k \in 1 .. Len(sessions) : sessions[i].id = sessions[k].id => i = k
  /\ \A i, k \in 1 .. Len(sessions) :
       \A j \in 1 .. Len(sessions[i].messages), l \in 1 .. Len(sessions[k].messages) :
         Key(sessions[i].messages[j]) = Key(sessions[k].messages[l]) => i = k /\ j = l
  /\ \A i \in 1 .. Len(sessions) : \A j \in 1 .. Len(sessions[i].messages) :
       sessions[i].messages[j].req <= lastRequest

\* The drawing is late only in what its messages hold, and never shows an idle page
\* while an answer is awaited.
ViewFollows ==
  /\ Generating => view.generating
  /\ Len(view.messages) = Len(Messages)
  /\ \A j \in 1 .. Len(Messages) : Key(view.messages[j]) = Key(Messages[j])
  /\ (overlapped = {} /\ ~broken /\ ~view.generating) => view.messages = Messages

\* The last message of the open conversation is the answer to the last request.
Awaited == Messages # << >> /\ Key(Messages[Len(Messages)]) = <<lastRequest, "assistant">>

\* What is under way belongs to the last request, or has overlapped another, and
\* writes into the open conversation, whose last message is there for it.
InFlight ==
  /\ Running \subseteq overlapped \cup {lastRequest}
  /\ lastRequest \notin overlapped => Running \subseteq {lastRequest}
  /\ overlapped \subseteq 1 .. lastRequest
  /\ source # NoSource => source.sid = active /\ Awaited
  /\ \A h \in http : (~h.aborted /\ h.req \notin overlapped) => h.sid = active /\ Awaited
  /\ (overlapped = {} /\ isRequesting /\ ~isStreaming) => \E h \in http : ~h.aborted
  /\ ~broken => /\ pending \subseteq ({source.req} \ {0}) \cup overlapped
                /\ pending # {} => source # NoSource
                /\ timer # NoId => source # NoSource /\ timer = active

\* An answer has only text of its own request and of others.
Own(m, others) == m.from = "assistant" => m.has \subseteq {UserText, m.req} \cup others

AllMessages == UNION {{sessions[i].messages[j] : j \in 1 .. Len(sessions[i].messages)} :
                        i \in 1 .. Len(sessions)}

\* An answer has only text of its own request: chunks that waited, callbacks of a
\* stopped or failed request and late responses never write into another message.
\* The exceptions are requests that were under way at the same time as another, which
\* takes an edit submitted while an answer arrives, and what chunks do that came in
\* one piece with an event that could not be parsed: nobody clears them, and the
\* timer they set takes later chunks with it.
OwnText == \A m \in AllMessages : ~broken => Own(m, overlapped)

\* The same of what is drawn, which a click may write back.
DrawnOwn == ~broken => \A j \in 1 .. Len(view.messages) : Own(view.messages[j], overlapped)

\* An unfinished answer is the one under way, unless its request overlapped another.
UnfinishedRuns ==
  (~broken /\ ~staleSave) =>
    \A i \in 1 .. Len(sessions) : \A j \in 1 .. Len(sessions[i].messages) :
      LET m == sessions[i].messages[j]
      IN  (IsPending(m) /\ m.req \notin overlapped) =>
            /\ sessions[i].id = active /\ j = Len(sessions[i].messages)
            /\ m.req = lastRequest /\ lastRequest \in Running

\* An idle page shows no unfinished answer but of requests that overlapped.
DrawnFinished ==
  (~broken /\ ~staleSave /\ ~view.generating) =>
    \A j \in 1 .. Len(view.messages) :
      IsPending(view.messages[j]) => view.messages[j].req \in overlapped

\* The page that waits has a message to wait for.
WaitsForMessage ==
  (~broken /\ ~staleSave /\ overlapped = {} /\ Generating) =>
    Messages # << >> /\ IsPending(Messages[Len(Messages)])

IInv == /\ TypeOK /\ Wired /\ Distinct /\ ViewFollows /\ InFlight
        /\ OwnText /\ DrawnOwn /\ UnfinishedRuns /\ DrawnFinished /\ WaitsForMessage

\* The page waits for an answer exactly when the last message of the open
\* conversation is unfinished, and no other message of any conversation is: none
\* spins for ever and no answer is received without a message to show it in.  (The
\* earlier messages of the open conversation are OneUnfinished's.)  That is so until
\* two requests are under way at once, which takes an edit submitted while an answer
\* arrives (overlapped), an event that cannot be parsed comes together with others
\* (broken), or an edit is saved over messages that were not drawn yet (staleSave).
PendingIffGenerating ==
  (overlapped = {} /\ ~broken /\ ~staleSave) =>
    /\ Generating <=> (Messages # << >> /\ IsPending(Messages[Len(Messages)]))
    /\ \A i \in 1 .. Len(sessions) : sessions[i].id # active =>
         \A j \in 1 .. Len(sessions[i].messages) : ~IsPending(sessions[i].messages[j])

\* Whatever is edited and submitted while answers arrive, an unfinished message
\* before the last one of its conversation belongs to a request that overlapped
\* another: for any other request the one message that sanitizeMessagesOnLoad
\* repairs is the only one.  The claim ends with an event that cannot be parsed and
\* comes together with others (broken), and with an edit saved over messages that were
\* not drawn yet, which may take an answer back to unfinished (staleSave).
OneUnfinished ==
  (~broken /\ ~staleSave) =>
    \A i \in 1 .. Len(sessions) :
      LET ms == sessions[i].messages
      IN  \A j \in 1 .. Len(ms) : (IsPending(ms[j]) /\ ms[j].req \notin overlapped) => j = Len(ms)

\* A finished answer never changes its text nor starts again, unless a user edits
\* it: not on a late chunk, timer, response, click or stop.  That holds for a page on
\* which no two requests were under way at once so far (overlapped), no event that
\* cannot be parsed came together with others (broken) and no edit was saved over
\* messages that were not drawn yet (staleSave): after any of the three a late answer,
\* chunk or click may overwrite a finished answer of the page.  A reload overwrites
\* none, whatever happened before.
FinishedStays ==
  [][ \A m \in AllMessages, n \in AllMessages' :
        (Key(m) = Key(n) /\ m.from = "assistant" /\ m.status \in {"complete", "error"})
          => \/ n.status = m.status /\ n.has \in {m.has, m.has \cup {UserText}}
             \/ ~Reload /\ (overlapped # {} \/ broken \/ staleSave') ]_vars

\* The page stops waiting for every request, unless the connection ended without
\* [DONE], which no listener takes note of: then only the stop button helps.
GenerationEnds ==
  Generating ~> (~Generating \/ (source # NoSource /\ ~source.live))
=============================================================================
