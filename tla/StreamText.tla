----------------------------- MODULE StreamText -----------------------------
(***************************************************************************)
(* The text of one streamed answer of the playground, from the events of   *)
(* the SSE source to the message on the page (web/default/src/features/    *)
(* playground: hooks/use-chat-handler.ts, lib/message/message-streaming-   *)
(* utils.ts, lib/message/message-reasoning-utils.ts).                      *)
(*                                                                         *)
(* Chunks are gathered in pendingStreamChunksRef and moved to the message  *)
(* by a timer of 50 ms.  Both steps treat a chunk that begins with the     *)
(* text it is added to as a snapshot of the whole answer, not as more of   *)
(* it: nothing in the event says which of the two an upstream sends.       *)
(* A text is a sequence of words and halves of tags: <think> and </think>  *)
(* are two tokens each, so that a chunk can end inside a tag.  Wherever it *)
(* does, the beginning of the tag reads as plain text until the rest comes.*)
(* White space, which trim() removes at the ends, is left out.             *)
(***************************************************************************)
EXTENDS Naturals, Sequences

CONSTANTS
  Words,      \* the words of an answer
  Chunks,     \* the texts that an event may carry, by type of delta
  MaxText     \* bounds on the text received, by type of delta

OpenHead == "<thi"
CloseHead == "</thi"
TagEnd == "nk>"
Halves == {OpenHead, CloseHead, TagEnd}
Types == {"content", "reasoning"}

ASSUME ChunkAssumption ==
  /\ Words \cap (Halves \cup {"error"}) = {}
  /\ \A type \in Types : Chunks[type] \subseteq Seq(Words \cup Halves) \ {<< >>}
  /\ MaxText \in [Types -> Nat]

Tokens == Words \cup Halves \cup {"error"}
Text == Seq(Tokens)

VARIABLES
  open,       \* the source is open: its events are still delivered
  pending,    \* pendingStreamChunksRef
  timer,      \* streamFlushTimerRef is set
  message,    \* the assistant message: status, content, reasoning
  sent,       \* history: the texts of the chunks so far, one after the other
  latest,     \* history: the last content chunk
  cumulative, \* history: every content chunk began with the one before it
  repeated,   \* history: the types of which a chunk was taken for a snapshot
  cut         \* history: the timer once fell inside the </think> of a block

vars == <<open, pending, timer, message, sent, latest, cumulative, repeated, cut>>

StartsWith(s, prefix) ==
  Len(prefix) <= Len(s) /\ SubSeq(s, 1, Len(prefix)) = prefix

\* The chunk is read as a snapshot of the text it is added to.
TakenAsSnapshot(current, chunk) == current # << >> /\ StartsWith(chunk, current)

\* Mutant: the last chunk before the timer wins.
KeepLastChunk(current, next) == next

mergePendingStreamChunk(current, next) ==
  IF TakenAsSnapshot(current, next) THEN next ELSE current \o next

\* Mutant: every chunk is appended whole.
AppendWholeChunk(current, chunk) == chunk

getAppendableChunk(current, chunk) ==
  IF TakenAsSnapshot(current, chunk)
  THEN SubSeq(chunk, Len(current) + 1, Len(chunk))
  ELSE chunk

-----------------------------------------------------------------------------
(* parseThinkTags: the loop over the tags, from one position to the next. *)

\* The tag with this head stands at positions i and i + 1.
IsTag(s, head, i) == i + 1 <= Len(s) /\ s[i] = head /\ s[i + 1] = TagEnd

\* content.indexOf(tag, from), Len + 1 when there is none.
IndexOf(s, head, from) ==
  LET at == {i \in from .. Len(s) : IsTag(s, head, i)}
  IN  IF at = {} THEN Len(s) + 1 ELSE CHOOSE i \in at : \A j \in at : i <= j

\* Mutant: only the first block is cut out.
ParseFirstBlock(s) ==
  LET openPos == IndexOf(s, OpenHead, 1)
      closePos == IndexOf(s, CloseHead, openPos + 2)
  IN  [visible |-> SubSeq(s, 1, openPos - 1) \o SubSeq(s, closePos + 2, Len(s)),
       reasoning |-> SubSeq(s, openPos + 2, closePos - 1),
       unclosed |-> closePos > Len(s)]

parseThinkTags(s) ==
  LET end == Len(s) + 1
      rest[p \in 1 .. end + 1] ==     \* what the loop adds from currentPos = p on
        LET openPos == IndexOf(s, OpenHead, p)
            closePos == IndexOf(s, CloseHead, openPos + 2)
        IN  IF openPos >= end
            THEN [visible |-> SubSeq(s, p, Len(s)), reasoning |-> << >>, unclosed |-> FALSE]
            ELSE IF closePos >= end
            THEN [visible |-> SubSeq(s, p, openPos - 1),
                  reasoning |-> SubSeq(s, openPos + 2, Len(s)), unclosed |-> TRUE]
            ELSE [visible |-> SubSeq(s, p, openPos - 1) \o rest[closePos + 2].visible,
                  reasoning |-> SubSeq(s, openPos + 2, closePos - 1)
                                  \o rest[closePos + 2].reasoning,
                  unclosed |-> rest[closePos + 2].unclosed]
  IN  rest[1]

HasOpenTag(s) == \E i \in 1 .. Len(s) : IsTag(s, OpenHead, i)

-----------------------------------------------------------------------------
(* The message. *)

isAssistantMessageFinal(m) == m.status \in {"complete", "error"}
isAssistantMessagePending(m) == m.status \in {"loading", "streaming"}

\* The raw text stays in the content; the reasoning shown is cut out of it.
processStreamingContent(m, chunk) ==
  LET full == m.content \o chunk
      parsed == parseThinkTags(full)
  IN  IF HasOpenTag(full) /\ parsed.reasoning # << >>
      THEN [m EXCEPT !.content = full, !.reasoning = parsed.reasoning]
      ELSE [m EXCEPT !.content = full]

applyStreamingChunk(m, type, chunk) ==
  IF chunk = << >> \/ m.status = "error" THEN m
  ELSE IF type = "reasoning"
  THEN [m EXCEPT !.reasoning = @ \o getAppendableChunk(@, chunk), !.status = "streaming"]
  ELSE [processStreamingContent(m, getAppendableChunk(m.content, chunk))
          EXCEPT !.status = "streaming"]

finalizeMessage(m) ==
  LET parsed == parseThinkTags(m.content)
  IN  [m EXCEPT !.content = IF HasOpenTag(@) THEN parsed.visible ELSE @,
                !.reasoning = IF @ # << >> THEN @
                              ELSE IF HasOpenTag(m.content) THEN parsed.reasoning ELSE << >>]

completeAssistantMessage(m) == [finalizeMessage(m) EXCEPT !.status = "complete"]

updateAssistantMessageWithError(m) == [m EXCEPT !.content = <<"error">>, !.status = "error"]

\* Mutant: the reasoning that waits is dropped.
FlushContentOnly(m) == applyStreamingChunk(m, "content", pending.content)

\* What flushStreamUpdates makes of the message.
Flushed(m) ==
  applyStreamingChunk(applyStreamingChunk(m, "reasoning", pending.reasoning),
                      "content", pending.content)

NoChunks == [content |-> << >>, reasoning |-> << >>]

\* History: the types whose pending text is taken for a snapshot of what is shown.
TakenOnFlush ==
  {t \in Types : pending[t] # << >> /\ TakenAsSnapshot(message[t], pending[t])}

flushStreamUpdates(update(_)) ==
  /\ timer' = FALSE
  /\ pending' = NoChunks
  /\ message' = update(Flushed(message))
  /\ repeated' = repeated \cup TakenOnFlush

-----------------------------------------------------------------------------
Init ==
  /\ open = TRUE
  /\ pending = NoChunks
  /\ timer = FALSE
  /\ message = [status |-> "loading", content |-> << >>, reasoning |-> << >>]
  /\ sent = NoChunks
  /\ latest = << >>
  /\ cumulative = TRUE
  /\ repeated = {}
  /\ cut = FALSE

\* Mutant: only the first chunk of an answer sets the timer.
TimerOnFirstChunk(type, chunk) ==
  /\ open
  /\ Len(sent[type]) + Len(chunk) <= MaxText[type]
  /\ pending' = [pending EXCEPT ![type] = mergePendingStreamChunk(@, chunk)]
  /\ timer' = (timer \/ message.status = "loading")
  /\ sent' = [sent EXCEPT ![type] = @ \o chunk]
  /\ latest' = IF type = "content" THEN chunk ELSE latest
  /\ cumulative' = (cumulative /\ (type = "content" => StartsWith(chunk, latest)))
  /\ repeated' = IF TakenAsSnapshot(pending[type], chunk)
                 THEN repeated \cup {type} ELSE repeated
  /\ UNCHANGED <<open, message, cut>>

\* An event with a delta: handleStreamUpdate, and scheduleStreamFlush.
HandleStreamUpdate(type, chunk) ==
  /\ open
  /\ Len(sent[type]) + Len(chunk) <= MaxText[type]
  /\ pending' = [pending EXCEPT ![type] = mergePendingStreamChunk(@, chunk)]
  /\ timer' = TRUE
  /\ sent' = [sent EXCEPT ![type] = @ \o chunk]
  /\ latest' = IF type = "content" THEN chunk ELSE latest
  /\ cumulative' = (cumulative /\ (type = "content" => StartsWith(chunk, latest)))
  /\ repeated' = IF TakenAsSnapshot(pending[type], chunk)
                 THEN repeated \cup {type} ELSE repeated
  /\ UNCHANGED <<open, message, cut>>

\* Reference for the tags: token i is inside a block when some <think> before it has
\* no </think> in between.
Inside(s, i) ==
  \E j \in 1 .. i - 2 :
    IsTag(s, OpenHead, j) /\ \A k \in j + 2 .. i - 2 : ~IsTag(s, CloseHead, k)

\* The text ends with the first half of the </think> of a block.
EndsInTag(s) == s # << >> /\ s[Len(s)] = CloseHead /\ Inside(s, Len(s))

\* The flush timer fires.
FlushTimer ==
  /\ timer
  /\ flushStreamUpdates(LAMBDA m : m)
  /\ cut' = (cut \/ EndsInTag(message'.content))
  /\ UNCHANGED <<open, sent, latest, cumulative>>

\* The [DONE] event: handleStreamComplete.
HandleStreamComplete ==
  /\ open
  /\ open' = FALSE
  /\ flushStreamUpdates(LAMBDA m :
       IF isAssistantMessageFinal(m) THEN m ELSE completeAssistantMessage(m))
  /\ UNCHANGED <<sent, latest, cumulative, cut>>

\* An error event, or an event that cannot be parsed: handleStreamError.
HandleStreamError ==
  /\ open
  /\ open' = FALSE
  /\ flushStreamUpdates(updateAssistantMessageWithError)
  /\ UNCHANGED <<sent, latest, cumulative, cut>>

\* The stop button: stopGeneration.
StopGeneration ==
  /\ open
  /\ open' = FALSE
  /\ flushStreamUpdates(LAMBDA m :
       IF isAssistantMessagePending(m) THEN completeAssistantMessage(m) ELSE m)
  /\ UNCHANGED <<sent, latest, cumulative, cut>>

Next ==
  \/ \E type \in Types : \E chunk \in Chunks[type] : HandleStreamUpdate(type, chunk)
  \/ FlushTimer
  \/ HandleStreamComplete
  \/ HandleStreamError
  \/ StopGeneration

Spec == Init /\ [][Next]_vars

\* The browser fires a timer that is set.
FairSpec == Spec /\ WF_vars(FlushTimer)
-----------------------------------------------------------------------------
(* Properties. *)

\* What a step relies on.  While the answer streams its raw text is in the message
\* (completeAssistantMessage cuts the tags out of it once and for all), a chunk
\* that waits has its timer, and an ended answer has none; of cumulative chunks the page has a beginning of the last one.
TypeOK ==
  /\ open \in BOOLEAN /\ timer \in BOOLEAN /\ cumulative \in BOOLEAN /\ cut \in BOOLEAN
  /\ pending \in [Types -> Text] /\ sent \in [Types -> Text] /\ latest \in Text
  /\ DOMAIN message = {"status", "content", "reasoning"}
  /\ message.status \in {"loading", "streaming", "complete", "error"}
  /\ repeated \subseteq Types

EndedIsFinal ==
  /\ open <=> isAssistantMessagePending(message)
  /\ pending # NoChunks => timer
  /\ timer => open

RawText ==
  open => /\ message.content \in Text
          /\ ~HasOpenTag(message.content) => message.reasoning \in Text

SnapshotPrefix ==
  (cumulative /\ open) =>
    /\ StartsWith(latest, message.content)
    /\ pending.content = latest \/ (pending.content = << >> /\ message.content = latest)

\* A <think> that opens a block, or the </think> that closes it, begins at i.
Mark(s, i) == \/ IsTag(s, OpenHead, i) /\ ~Inside(s, i)
              \/ IsTag(s, CloseHead, i) /\ Inside(s, i)
TagAt(s, i) == Mark(s, i) \/ (i > 1 /\ Mark(s, i - 1))
\* The tokens at the positions of keep, in their order.
Picked(s, keep) ==
  LET upTo[n \in 0 .. Len(s)] == IF n = 0 THEN << >>
                                 ELSE IF n \in keep THEN Append(upTo[n - 1], s[n])
                                 ELSE upTo[n - 1]
  IN  upTo[Len(s)]
Visible(s) == {i \in 1 .. Len(s) : ~Inside(s, i) /\ ~TagAt(s, i)}
Reasoning(s) == {i \in 1 .. Len(s) : Inside(s, i) /\ ~TagAt(s, i)}
VisibleOf(s) == Picked(s, Visible(s))
ReasoningOf(s) == Picked(s, Reasoning(s))

\* The reasoning on the page while the answer streams: without reasoning_content it
\* is what the blocks of the content shown hold, and without text in blocks it is
\* reasoning_content.  Blocks that turn out empty do not replace the half of a
\* </think> that the timer has shown as their text.
TagsRead ==
  (open /\ repeated = {}) =>
    /\ sent.reasoning = << >> =>
         /\ pending.reasoning = << >>
         /\ (cut => ReasoningOf(message.content) # << >>) =>
              message.reasoning = ReasoningOf(message.content)
    /\ ReasoningOf(message.content) = << >> /\ ~cut =>
         message.reasoning \in Text /\ message.reasoning \o pending.reasoning = sent.reasoning
    /\ ~cut => ~EndsInTag(message.content)

IInv == TypeOK /\ EndedIsFinal /\ RawText /\ SnapshotPrefix /\ TagsRead

\* The text that the message has, and will have once the timer fires.
Shown(type) == message[type] \o getAppendableChunk(message[type], pending[type])

\* Of an upstream that sends deltas nothing is lost and nothing doubled, however
\* the 50 ms timer falls between the events: while the answer streams, what is
\* shown and what is pending are the deltas received, in order, unless one of
\* them was taken for a snapshot.  (mergePendingStreamChunk, getAppendableChunk)
RawContent ==
  ("content" \notin repeated /\ isAssistantMessagePending(message))
    => message.content \o pending.content = sent.content

\* The same holds of the reasoning_content deltas, unless a <think> tag of the
\* content shown has replaced what they brought.  (processStreamingContent)
RawReasoning ==
  ("reasoning" \notin repeated /\ isAssistantMessagePending(message)
     /\ ~HasOpenTag(message.content))
    => message.reasoning \o pending.reasoning = sent.reasoning

\* Both together: the deltas an upstream sends are the text the page shows.
DeltasShown == RawContent /\ RawReasoning

\* Of an upstream whose every chunk is the whole answer so far, the page shows
\* the last chunk and none twice, however the timer falls.
SnapshotContent ==
  (cumulative /\ isAssistantMessagePending(message)) => Shown("content") = latest

\* An answer that ends with [DONE] or is stopped shows the text outside its
\* <think> blocks, and as its reasoning the text inside them or, when there is
\* none, the reasoning_content deltas: whatever the tags (nested, unclosed, stray)
\* and wherever the chunks and the timer cut it, inside a tag too.  Two exceptions:
\* a chunk was taken for a snapshot (repeated); and when there is no text inside the
\* blocks but the timer fell inside the </think> of one (cut), the reasoning is left
\* open: the code keeps the half of the tag that it has shown.
FinalText ==
  (message.status = "complete" /\ repeated = {})
    => /\ message.content = VisibleOf(sent.content)
       /\ ReasoningOf(sent.content) # << >> /\ sent.reasoning = << >> =>
            message.reasoning = ReasoningOf(sent.content)
       /\ ReasoningOf(sent.content) = << >> /\ ~cut => message.reasoning = sent.reasoning

\* Every chunk that waits in pendingStreamChunksRef reaches the message, or the
\* message ends: no chunk waits for a timer that nobody set.
ChunksShown == pending # NoChunks ~> pending = NoChunks
=============================================================================
