-------------------------- MODULE PlaygroundProofs --------------------------
(***************************************************************************)
(* The chat page for any conversations and any number of requests,         *)
(* messages, edits and reloads.                                            *)
(*                                                                         *)
(* First the refs of the hooks (Wired), which no message has a part in.    *)
(* Then Array.filter and the updates of a conversation's messages, told    *)
(* by what they change: only the last message, which keeps its key         *)
(* (Touched, Writes).  Then IInv, one lemma per event: the events of the   *)
(* network and the timer, which are not drawn at once, then the clicks,    *)
(* which are; clicks on a page that shows no answer under way only drop    *)
(* messages (From), requests replace the open conversation by what was     *)
(* drawn and a new answer (Asked).  Last the answers that are finished.    *)
(*                                                                         *)
(* Facts about all positions of a sequence come from the least position    *)
(* at which they fail (LeastNat).                                          *)
(***************************************************************************)
EXTENDS Playground, WellFoundedInduction, TLAPS

\* What Wired speaks of.
refs == <<stream, plain, isRequesting, lastRequest, overlapped>>

\* The fields of a request and of the source.
Shaped ==
  /\ \A h \in http : DOMAIN h = {"req", "sid", "aborted"}
  /\ DOMAIN source = {"req", "sid", "live"}

\* A step that touches none of the refs.
LEMMA Unwired == ASSUME Wired, UNCHANGED refs PROVE Wired'
BY DEF Wired, refs, stream, plain

\* A page just opened has no request.
LEMMA InitWired == Init => Wired
BY DEF Init, Wired, NoSource

\* The source ends: while it was there no plain request ran that is not overlapped.
LEMMA SourceGone ==
  ASSUME Wired, isStreaming, source' = NoSource, isStreaming' = FALSE,
         UNCHANGED <<plain, lastRequest, overlapped>>
  PROVE  Wired'
BY DEF Wired, plain, NoSource

\* A request is sent: the next number, with nothing under way unless overlapped.
LEMMA SendStep ==
  ASSUME Wired, NEW ms, sendChat(ms)
  PROVE  Wired'
<1>. DEFINE r == lastRequest + 1
<1>1. lastRequest' = r /\ lastRequest \in Nat /\ overlapped' = overlapped \cup Overlap(r)
  BY DEF sendChat, Wired
<1>2. ASSUME lastRequest' \notin overlapped'
      PROVE  source = NoSource /\ \A h \in http : h.aborted
  <2>1. {source.req} \ {0} = {} /\ {h.req : h \in {x \in http : ~x.aborted}} = {}
    BY <1>1, <1>2 DEF Running, Overlap
  <2>2. source = NoSource
    BY <2>1 DEF Wired
  <2>3. \A h \in http : h.aborted
    BY <2>1
  <2>. QED BY <2>2, <2>3
<1>3. ASSUME NEW started \in BOOLEAN, sendStreamingChat(r, ms, started)
      PROVE  Wired'
  <2>1. /\ http' = http /\ controller' = controller /\ requestId' = requestId
        /\ \/ source' = [req |-> r, sid |-> active, live |-> TRUE] /\ isStreaming' = TRUE
           \/ source' = NoSource /\ isStreaming' = FALSE
    BY <1>3 DEF sendStreamingChat, plain
  <2>2. /\ isStreaming' <=> source' # NoSource
        /\ source' # NoSource => source'.req \in 1 .. lastRequest'
    BY <1>1, <2>1 DEF NoSource
  <2>3. /\ \A h \in http' : h.req \in 1 .. lastRequest'
        /\ \A h, k \in http' : h.req = k.req => h = k
        /\ requestId' \in 0 .. lastRequest' /\ lastRequest' \in Nat
        /\ controller' # 0 =>
             controller' = requestId' /\ \E h \in http' : h.req = controller' /\ ~h.aborted
    BY <1>1, <2>1 DEF Wired
  <2>4. lastRequest' \notin overlapped' => \A h \in http' : h.aborted
    BY <1>2, <2>1
  <2>. QED BY <2>2, <2>3, <2>4 DEF Wired
<1>4. ASSUME sendNonStreamingChat(r, ms)
      PROVE  Wired'
  <2>. DEFINE new == [req |-> r, sid |-> active, aborted |-> FALSE]
  <2>1. /\ http' = http \cup {new} /\ controller' = r /\ requestId' = r
        /\ isRequesting' = TRUE /\ source' = source /\ isStreaming' = isStreaming
    BY <1>4 DEF sendNonStreamingChat, stream
  <2>2. new.req = r /\ new.aborted = FALSE
    OBVIOUS
  <2>. HIDE DEF new
  <2>3. \A h \in http : h.req # r
    BY <1>1 DEF Wired
  <2>4. /\ isStreaming' <=> source' # NoSource
        /\ source' # NoSource => source'.req \in 1 .. lastRequest'
        /\ \A h \in http' : h.req \in 1 .. lastRequest'
        /\ requestId' \in 0 .. lastRequest' /\ lastRequest' \in Nat
    BY <1>1, <2>1, <2>2 DEF Wired
  <2>5. \A h, k \in http' : h.req = k.req => h = k
    BY <2>1, <2>2, <2>3 DEF Wired
  <2>6. controller' = requestId' /\ \E h \in http' : h.req = controller' /\ ~h.aborted
    BY <2>1, <2>2
  <2>7. lastRequest' \notin overlapped' =>
          \A h \in http' : ~h.aborted => h.req = controller' /\ isRequesting' /\ ~isStreaming'
    BY <1>2, <2>1, <2>2 DEF Wired
  <2>. QED BY <2>4, <2>5, <2>6, <2>7 DEF Wired
<1>. QED BY <1>3, <1>4 DEF sendChat

\* A request that is sent has its fields.
LEMMA SendShaped ==
  ASSUME Shaped, NEW ms, sendChat(ms)
  PROVE  Shaped'
BY DEF Shaped, sendChat, sendStreamingChat, sendNonStreamingChat, plain, stream, NoSource

\* The stop button: the source is closed and the controller's request aborted.
LEMMA StopStep ==
  ASSUME Wired, Shaped, StopGeneration
  PROVE  Wired' /\ Shaped'
<1>. DEFINE stop(h) == IF h.req = controller THEN [h EXCEPT !.aborted = TRUE] ELSE h
<1>0. overlapped' = overlapped /\ lastRequest' = lastRequest /\ requestId' = requestId
  BY DEF StopGeneration, bound, history
<1>1. /\ source' = NoSource /\ isStreaming' = FALSE /\ controller' = 0
      /\ http' = {stop(h) : h \in http}
  BY DEF StopGeneration
<1>2. ASSUME NEW h \in http
      PROVE  /\ stop(h).req = h.req /\ DOMAIN stop(h) = {"req", "sid", "aborted"}
             /\ ~stop(h).aborted => h.req # controller /\ stop(h) = h
             /\ h.req # controller => stop(h) = h
  BY DEF Shaped
<1>3. \A h \in http' : \E k \in http : h = stop(k)
  BY <1>1
<1>. HIDE DEF stop
<1>4. Shaped'
  <2>1. \A h \in http' : DOMAIN h = {"req", "sid", "aborted"}
    BY <1>2, <1>3
  <2>2. DOMAIN source' = {"req", "sid", "live"}
    BY <1>1 DEF NoSource
  <2>. QED BY <2>1, <2>2 DEF Shaped
<1>5. \A h \in http' : h.req \in 1 .. lastRequest'
  BY <1>0, <1>2, <1>3 DEF Wired
<1>6. ASSUME NEW h \in http', NEW k \in http', h.req = k.req PROVE h = k
  <2>1. PICK x \in http : h = stop(x)
    BY <1>3
  <2>2. PICK y \in http : k = stop(y)
    BY <1>3
  <2>3. x = y
    BY <1>2, <1>6, <2>1, <2>2 DEF Wired
  <2>. QED BY <2>1, <2>2, <2>3
<1>7. ASSUME lastRequest' \notin overlapped', NEW h \in http' PROVE h.aborted
  <2>1. PICK x \in http : h = stop(x)
    BY <1>3
  <2>2. SUFFICES ASSUME ~h.aborted PROVE FALSE
    OBVIOUS
  <2>3. x.req # controller /\ ~x.aborted
    BY <1>2, <2>1, <2>2
  <2>. QED BY <1>0, <1>7, <2>3 DEF Wired
<1>8. requestId' \in 0 .. lastRequest' /\ lastRequest' \in Nat
  BY <1>0 DEF Wired
<1>. QED BY <1>1, <1>4, <1>5, <1>6, <1>7, <1>8 DEF Wired, NoSource

\* A plain request is over: what its finally clears is its own.
LEMMA FinallyStep ==
  ASSUME Wired, Shaped, NEW h \in http, NEW otherwise,
         otherwise = isRequesting \/ (otherwise = FALSE /\ ~h.aborted),
         Finally(h, otherwise)
  PROVE  Wired' /\ Shaped'
<1>1. /\ http' = http \ {h} /\ requestId' = requestId
      /\ controller' = IF requestId = h.req THEN 0 ELSE controller
      /\ isRequesting' = IF requestId = h.req THEN FALSE ELSE otherwise
      /\ source' = source /\ isStreaming' = isStreaming
      /\ lastRequest' = lastRequest /\ overlapped' = overlapped
  BY DEF Finally, stream, history, NotDrawn, bound
<1>2. Shaped'
  BY <1>1 DEF Shaped
<1>3. /\ isStreaming' <=> source' # NoSource
      /\ source' # NoSource => source'.req \in 1 .. lastRequest'
      /\ \A k \in http' : k.req \in 1 .. lastRequest'
      /\ \A k, l \in http' : k.req = l.req => k = l
      /\ requestId' \in 0 .. lastRequest' /\ lastRequest' \in Nat
  BY <1>1 DEF Wired
<1>4. ASSUME controller' # 0
      PROVE  controller' = requestId' /\ \E k \in http' : k.req = controller' /\ ~k.aborted
  <2>1. requestId # h.req /\ controller' = controller /\ controller = requestId
    BY <1>1, <1>4 DEF Wired
  <2>2. PICK k \in http : k.req = controller /\ ~k.aborted
    BY <1>4, <2>1 DEF Wired
  <2>3. k \in http'
    BY <1>1, <2>1, <2>2
  <2>. QED BY <1>1, <2>1, <2>2, <2>3
<1>5. ASSUME lastRequest' \notin overlapped', NEW k \in http', ~k.aborted
      PROVE  k.req = controller' /\ isRequesting' /\ ~isStreaming'
  <2>1. k \in http /\ k # h /\ k.req = controller /\ isRequesting /\ ~isStreaming
    BY <1>1, <1>5 DEF Wired
  <2>2. controller # 0 /\ controller = requestId
    BY <2>1 DEF Wired
  <2>3. requestId # h.req
    BY <2>1, <2>2 DEF Wired
  <2>4. h.aborted
    BY <1>1, <1>5, <2>2, <2>3 DEF Wired
  <2>. QED BY <1>1, <2>1, <2>3, <2>4
<1>. QED BY <1>2, <1>3, <1>4, <1>5 DEF Wired

\* An event of the source that lives.
LEMMA Lives == ASSUME Wired, source.live PROVE isStreaming
BY DEF Wired, NoSource

\* One case per event: clicks, the source, the plain requests, drawing and reload.
LEMMA StepWired == Wired /\ Shaped /\ [Next]_vars => Wired' /\ Shaped'
<1>. SUFFICES ASSUME Wired, Shaped, [Next]_vars PROVE Wired' /\ Shaped'
  OBVIOUS
<1>1. ASSUME UNCHANGED refs PROVE Wired' /\ Shaped'
  <2>1. Wired'
    BY <1>1, Unwired
  <2>2. Shaped'
    BY <1>1 DEF Shaped, refs, plain, stream
  <2>. QED BY <2>1, <2>2
<1>2. ASSUME NEW ms, sendChat(ms) PROVE Wired' /\ Shaped'
  <2>1. Wired'
    BY <1>2, SendStep
  <2>2. Shaped'
    BY <1>2, SendShaped
  <2>. QED BY <2>1, <2>2
<1>3. CASE Click
  <2>1. CASE HandleSendMessage
    BY <1>2, <2>1 DEF HandleSendMessage
  <2>2. ASSUME NEW i \in 1 .. Len(view.messages), HandleRegenerateMessage(i)
        PROVE  Wired' /\ Shaped'
    BY <1>2, <2>2 DEF HandleRegenerateMessage
  <2>3. ASSUME NEW i \in 1 .. Len(view.messages), HandleEditMessage(i) \/ HandleDeleteMessage(i)
        PROVE  Wired' /\ Shaped'
    BY <1>1, <2>3 DEF HandleEditMessage, HandleDeleteMessage, refs, history
  <2>4. ASSUME NEW i \in 1 .. Len(view.messages), NEW shouldSubmit \in BOOLEAN,
               ApplyEdit(i, shouldSubmit)
        PROVE  Wired' /\ Shaped'
    <3>1. CASE shouldSubmit
      BY <1>2, <2>4, <3>1 DEF ApplyEdit
    <3>2. CASE ~shouldSubmit
      BY <1>1, <2>4, <3>2 DEF ApplyEdit, refs, bound
    <3>. QED BY <3>1, <3>2
  <2>5. CASE HandleEditOpenChange \/ HandleClearMessages
    BY <1>1, <2>5 DEF HandleEditOpenChange, HandleClearMessages, refs, bound, history
  <2>6. ASSUME NEW id \in Ids, CreateNewSession(id) \/ SwitchSession(id)
        PROVE  Wired' /\ Shaped'
    BY <1>1, <2>6 DEF CreateNewSession, SwitchSession, refs, bound, history
  <2>7. ASSUME NEW id \in Ids, NEW fresh \in Ids, DeleteSession(id, fresh)
        PROVE  Wired' /\ Shaped'
    BY <1>1, <2>7 DEF DeleteSession, refs, bound, history
  <2>8. CASE StopGeneration
    BY <2>8, StopStep
  <2>. QED BY <1>3, <2>1, <2>2, <2>3, <2>4, <2>5, <2>6, <2>7, <2>8 DEF Click
<1>4. CASE HandleStreamUpdate
  BY <1>1, <1>4 DEF HandleStreamUpdate, refs, NotDrawn, bound, history
<1>5. CASE FlushTimer
  BY <1>1, <1>5 DEF FlushTimer, refs, NotDrawn, bound, history
<1>6. CASE SourceEnds
  <2>1. ASSUME source.live, source' = NoSource, isStreaming' = FALSE,
               UNCHANGED <<plain, lastRequest, overlapped>>
        PROVE  Wired' /\ Shaped'
    <3>1. Wired'
      BY <2>1, Lives, SourceGone
    <3>2. Shaped'
      BY <2>1 DEF Shaped, plain, NoSource
    <3>. QED BY <3>1, <3>2
  <2>2. CASE HandleStreamComplete
    BY <2>1, <2>2 DEF HandleStreamComplete, NotDrawn, bound, history
  <2>3. ASSUME NEW more \in BOOLEAN, HandleStreamError(more)
        PROVE  Wired' /\ Shaped'
    BY <2>1, <2>3 DEF HandleStreamError, NotDrawn, bound
  <2>4. CASE ConnectionEnds
    <3>1. /\ source # NoSource /\ isStreaming /\ source' = [source EXCEPT !.live = FALSE]
          /\ isStreaming' = isStreaming /\ isRequesting' = isRequesting /\ UNCHANGED plain
          /\ lastRequest' = lastRequest /\ overlapped' = overlapped
      BY <2>4, Lives DEF ConnectionEnds, NotDrawn, bound, history, NoSource
    <3>2. source.req # 0
      BY <3>1 DEF Wired
    <3>3. "req" \in DOMAIN source
      BY DEF Shaped
    <3>4. source'.req = source.req /\ source' # NoSource
      BY <3>1, <3>2, <3>3 DEF NoSource
    <3>5. DOMAIN source' = DOMAIN source
      BY <3>1
    <3>6. Shaped'
      BY <3>1, <3>5 DEF Shaped, plain
    <3>. QED BY <3>1, <3>4, <3>6 DEF Wired, plain
  <2>. QED BY <1>6, <2>2, <2>3, <2>4 DEF SourceEnds
<1>7. ASSUME NEW h \in http, ResponseArrives(h) \/ RequestFails(h)
      PROVE  Wired' /\ Shaped'
  <2>1. CASE ResponseArrives(h)
    <3>1. Finally(h, isRequesting)
      BY <2>1 DEF ResponseArrives
    <3>. QED BY <3>1, FinallyStep
  <2>2. CASE RequestFails(h)
    <3>1. CASE h.aborted
      <4>1. Finally(h, isRequesting)
        BY <2>2, <3>1 DEF RequestFails
      <4>. QED BY <4>1, FinallyStep
    <3>2. CASE ~h.aborted
      <4>1. Finally(h, FALSE)
        BY <2>2, <3>2 DEF RequestFails
      <4>. QED BY <3>2, <4>1, FinallyStep
    <3>. QED BY <3>1, <3>2
  <2>. QED BY <1>7, <2>1, <2>2
<1>8. CASE Render
  BY <1>1, <1>8 DEF Render, refs, bound, history
<1>9. CASE Reload
  BY <1>9 DEF Reload, Wired, Shaped, NoSource, bound, history
<1>10. CASE UNCHANGED vars
  BY <1>1, <1>10 DEF vars, refs, bound, history
<1>. QED BY <1>3, <1>4, <1>5, <1>6, <1>7, <1>8, <1>9, <1>10 DEF Next, RequestEnds

-----------------------------------------------------------------------------
\* The refs that use-chat-handler.ts and use-stream-request.ts keep agree in every
\* reachable state: an aborted request's finally takes nothing from the request that
\* follows, and the stop button reaches every plain request that nothing overlapped.
THEOREM RefsAgree == Spec => []Wired
<1>1. Init => Wired /\ Shaped
  BY InitWired DEF Init, Shaped, NoSource
<1>. QED BY <1>1, StepWired, PTL DEF Spec

-----------------------------------------------------------------------------
(* Sequences: a least number, Array.filter that drops one position, updateMessages. *)

\* Every set of numbers has a least one.
LEMMA LeastNat ==
  ASSUME NEW T, T \subseteq Nat, T # {}
  PROVE  \E x \in T : \A y \in T : x <= y
<1>1. IsWellFoundedOn(OpToRel(<, Nat), Nat)
  BY NatLessThanWellFounded
<1>2. PICK x \in T : \A y \in T : ~ (<<y, x>> \in OpToRel(<, Nat))
  BY <1>1, WFMin
<1>3. ASSUME NEW y \in T PROVE x <= y
  <2>1. ~ (<<y, x>> \in OpToRel(<, Nat))
    BY <1>2
  <2>2. x \in Nat /\ y \in Nat
    OBVIOUS
  <2>3. ~(y < x)
    BY <2>1, <2>2 DEF OpToRel
  <2>. QED BY <2>2, <2>3
<1>. QED BY <1>3

\* A set of numbers up to n has a greatest one.
LEMMA GreatestNat ==
  ASSUME NEW n \in Nat, NEW T, T \subseteq 1 .. n, T # {}
  PROVE  \E x \in T : \A y \in T : y <= x
<1>. DEFINE U == {n - x : x \in T}
<1>1. U \subseteq Nat /\ U # {}
  <2>1. \A x \in T : x \in 1 .. n /\ n - x \in Nat
    OBVIOUS
  <2>. QED BY <2>1
<1>2. PICK u \in U : \A v \in U : u <= v
  BY <1>1, LeastNat
<1>3. PICK x \in T : u = n - x
  OBVIOUS
<1>4. ASSUME NEW y \in T PROVE y <= x
  <2>1. n - y \in U
    OBVIOUS
  <2>. QED BY <1>2, <1>3, <2>1
<1>. QED BY <1>4

\* The recursive function of Filtered exists.
FilterFunction(s, keep, N, f) ==
  f = [n \in 0 .. N |-> IF n = 0 THEN << >>
                        ELSE IF n \in keep THEN Append(f[n - 1], s[n]) ELSE f[n - 1]]

\* There is a function that takes the positions one by one, as Filtered says.
LEMMA FilterExists ==
  ASSUME NEW s, NEW keep, NEW N \in Nat
  PROVE  \E f : FilterFunction(s, keep, N, f)
<1>. DEFINE T == {k \in Nat : ~ \E f : FilterFunction(s, keep, k, f)}
<1>1. SUFFICES ASSUME T # {} PROVE FALSE
  OBVIOUS
<1>2. PICK x \in T : \A y \in T : x <= y
  BY <1>1, LeastNat
<1>3. \E f : FilterFunction(s, keep, 0, f)
  <2>. DEFINE g == [n \in 0 .. 0 |-> << >>]
  <2>1. FilterFunction(s, keep, 0, g)
    BY DEF FilterFunction
  <2>. QED BY <2>1
<1>4. x # 0 /\ x - 1 \in Nat /\ x - 1 \notin T
  BY <1>2, <1>3
<1>5. PICK g : FilterFunction(s, keep, x - 1, g)
  BY <1>4
<1>. DEFINE last == IF x \in keep THEN Append(g[x - 1], s[x]) ELSE g[x - 1]
            h == [n \in 0 .. x |-> IF n = x THEN last ELSE g[n]]
<1>6. \A n \in 0 .. x - 1 : h[n] = g[n]
  BY <1>4
<1>7. \A n \in 0 .. x - 1 : g[n] = IF n = 0 THEN << >>
                 ELSE IF n \in keep THEN Append(g[n - 1], s[n]) ELSE g[n - 1]
  BY <1>5 DEF FilterFunction
<1>8. \A n \in 0 .. x : h[n] = IF n = 0 THEN << >>
                 ELSE IF n \in keep THEN Append(h[n - 1], s[n]) ELSE h[n - 1]
  <2>1. h[x] = last /\ h[x - 1] = g[x - 1]
    BY <1>4
  <2>. HIDE DEF h
  <2>2. ASSUME NEW n \in 0 .. x, n # x, n # 0 PROVE h[n] = g[n] /\ h[n - 1] = g[n - 1]
    BY <1>4, <1>6, <2>2
  <2>3. h[0] = << >>
    BY <1>4, <1>6, <1>7
  <2>. QED BY <1>4, <1>7, <2>1, <2>2, <2>3
<1>9. FilterFunction(s, keep, x, h)
  <2>. DEFINE k == [n \in 0 .. x |-> IF n = 0 THEN << >>
                        ELSE IF n \in keep THEN Append(h[n - 1], s[n]) ELSE h[n - 1]]
  <2>1. h = [n \in 0 .. x |-> h[n]]
    OBVIOUS
  <2>. HIDE DEF h
  <2>2. h = k
    BY <1>8, <2>1
  <2>. QED BY <2>2 DEF FilterFunction
<1>. QED BY <1>9

\* Without position p, the rest in its order.
Dropped(s, p) == [j \in 1 .. Len(s) - 1 |-> IF j < p THEN s[j] ELSE s[j + 1]]

\* Array.filter that keeps all positions but one.
LEMMA FilteredDrops ==
  ASSUME NEW S, NEW s \in Seq(S), NEW p \in 1 .. Len(s)
  PROVE  Filtered(s, 1 .. Len(s) \ {p}) = Dropped(s, p)
<1>. DEFINE keep == 1 .. Len(s) \ {p}
            f == CHOOSE g : FilterFunction(s, keep, Len(s), g)
            R(n) == [j \in 1 .. (IF n < p THEN n ELSE n - 1) |-> IF j < p THEN s[j] ELSE s[j + 1]]
<1>0. Len(s) \in Nat /\ p \in 1 .. Len(s) /\ \A j \in 1 .. Len(s) : s[j] \in S
  OBVIOUS
<1>1. FilterFunction(s, keep, Len(s), f)
  BY <1>0, FilterExists
<1>2. Filtered(s, keep) = f[Len(s)]
  BY DEF Filtered, FilterFunction
<1>3. \A n \in 0 .. Len(s) : f[n] = IF n = 0 THEN << >>
                        ELSE IF n \in keep THEN Append(f[n - 1], s[n]) ELSE f[n - 1]
  BY <1>1 DEF FilterFunction
<1>. HIDE DEF f
<1>4. \A n \in 0 .. Len(s) : f[n] = R(n)
  <2>. DEFINE T == {n \in 0 .. Len(s) : f[n] # R(n)}
  <2>1. SUFFICES ASSUME T # {} PROVE FALSE
    OBVIOUS
  <2>2. T \subseteq Nat
    OBVIOUS
  <2>3. PICK x \in T : \A y \in T : x <= y
    BY <2>1, <2>2, LeastNat
  <2>4. f[0] = R(0)
    BY <1>0, <1>3
  <2>5. x \in 1 .. Len(s) /\ x - 1 \in 0 .. Len(s) /\ x - 1 \notin T
    <3>1. x \in 0 .. Len(s) /\ f[x] # R(x)
      OBVIOUS
    <3>2. x # 0
      BY <2>4, <3>1
    <3>. HIDE DEF T
    <3>3. x \in 1 .. Len(s) /\ x - 1 \in 0 .. Len(s) /\ ~(x <= x - 1)
      BY <1>0, <3>1, <3>2
    <3>. QED BY <2>3, <3>3
  <2>6. f[x - 1] = R(x - 1)
    BY <2>5
  <2>7. CASE x = p
    <3>1. f[x] = f[x - 1]
      BY <1>3, <2>5, <2>7
    <3>2. R(x) = R(x - 1)
      BY <1>0, <2>7
    <3>. QED BY <2>3, <2>6, <3>1, <3>2
  <2>8. CASE x # p
    <3>1. f[x] = Append(R(x - 1), s[x])
      <4>1. x \in keep /\ x # 0 /\ x \in 0 .. Len(s)
        BY <1>0, <2>5, <2>8
      <4>. HIDE DEF keep, R, T
      <4>2. f[x] = Append(f[x - 1], s[x])
        BY <1>3, <4>1
      <4>. QED BY <2>6, <4>2
    <3>2. R(x - 1) \in Seq(S) /\ R(x) \in Seq(S) /\ Len(R(x)) = Len(R(x - 1)) + 1
      <4>1. Len(s) \in Nat /\ x \in 1 .. Len(s) /\ p \in 1 .. Len(s)
        BY <1>0, <2>5
      <4>2. CASE x < p
        BY <1>0, <4>1, <4>2
      <4>3. CASE p < x
        BY <1>0, <4>1, <4>3
      <4>. QED BY <2>8, <4>1, <4>2, <4>3
    <3>3. \A j \in 1 .. Len(R(x)) : Append(R(x - 1), s[x])[j] = R(x)[j]
      <4>1. Len(s) \in Nat /\ x \in 1 .. Len(s) /\ p \in 1 .. Len(s)
        BY <1>0, <2>5
      <4>2. CASE x < p
        BY <1>0, <4>1, <4>2
      <4>3. CASE p < x
        BY <1>0, <4>1, <4>3
      <4>. QED BY <2>8, <4>1, <4>2, <4>3
    <3>4. Append(R(x - 1), s[x]) = R(x)
      <4>. HIDE DEF R
      <4>1. s[x] \in S
        BY <1>0, <2>5
      <4>. QED BY <3>2, <3>3, <4>1
    <3>. QED BY <2>3, <3>1, <3>4
  <2>. QED BY <2>7, <2>8
<1>5. R(Len(s)) = Dropped(s, p)
  BY <1>0 DEF Dropped
<1>. QED BY <1>0, <1>2, <1>4, <1>5

\* What is left of a sequence without position p.
LEMMA DroppedProperties ==
  ASSUME NEW S, NEW s \in Seq(S), NEW p \in 1 .. Len(s)
  PROVE  /\ Dropped(s, p) \in Seq(S) /\ Len(Dropped(s, p)) = Len(s) - 1
         /\ \A j \in 1 .. Len(s) - 1 :
              Dropped(s, p)[j] = s[IF j < p THEN j ELSE j + 1]
BY DEF Dropped

-----------------------------------------------------------------------------
(* What the updates do to the messages of a conversation. *)

\* Only the last message changes; it keeps its key and gains text of add or the page's.
Touched(ms, new, add) ==
  /\ new \in Seq(Message) /\ Len(new) = Len(ms)
  /\ \A j \in 1 .. Len(ms) :
       /\ Key(new[j]) = Key(ms[j])
       /\ new[j].has \subseteq ms[j].has \cup add \cup {UserText}
       /\ (j # Len(ms) \/ ms[j].from = "user") => new[j] = ms[j]

\* The last message is finished.
Ended(ms) == ms # << >> => ~IsPending(ms[Len(ms)])

\* An update of the last message that keeps its key.
LEMMA LastUpdated ==
  ASSUME NEW ms \in Seq(Message), NEW add, NEW e \in Message,
         ms # << >>, Key(e) = Key(ms[Len(ms)]), ms[Len(ms)].from = "assistant",
         e.has \subseteq ms[Len(ms)].has \cup add \cup {UserText}
  PROVE  /\ Touched(ms, [ms EXCEPT ![Len(ms)] = e], add)
         /\ [ms EXCEPT ![Len(ms)] = e] # << >>
         /\ [ms EXCEPT ![Len(ms)] = e][Len(ms)] = e
<1>. DEFINE new == [ms EXCEPT ![Len(ms)] = e]
<1>1. Len(ms) \in Nat /\ Len(ms) \in 1 .. Len(ms) /\ Len(ms) # 0
  OBVIOUS
<1>2. new \in Seq(Message) /\ Len(new) = Len(ms) /\ new[Len(ms)] = e
  BY <1>1
<1>3. \A j \in 1 .. Len(ms) : j # Len(ms) => new[j] = ms[j]
  BY <1>1
<1>4. "user" # "assistant"
  OBVIOUS
<1>. HIDE DEF new
<1>5. ASSUME NEW j \in 1 .. Len(ms)
      PROVE  /\ Key(new[j]) = Key(ms[j])
             /\ new[j].has \subseteq ms[j].has \cup add \cup {UserText}
             /\ (j # Len(ms) \/ ms[j].from = "user") => new[j] = ms[j]
  <2>1. CASE j = Len(ms)
    BY <1>2, <2>1
  <2>2. CASE j # Len(ms)
    BY <1>3, <2>2
  <2>. QED BY <2>1, <2>2
<1>6. new # << >>
  BY <1>1, <1>2
<1>. QED BY <1>2, <1>5, <1>6 DEF Touched, new

\* An update that changes nothing.
LEMMA Untouched ==
  ASSUME NEW ms \in Seq(Message), NEW add
  PROVE  Touched(ms, ms, add)
BY DEF Touched

\* Without a last message of an assistant nothing is unfinished at the end.
LEMMA UserFinished ==
  ASSUME NEW ms \in Seq(Message), ~(ms # << >> /\ ms[Len(ms)].from = "assistant")
  PROVE  Ended(ms)
BY DEF Ended, IsPending

\* The flush.
LEMMA FlushTouches ==
  ASSUME TypeOK, NEW ms \in Seq(Message)
  PROVE  /\ Touched(ms, flushed(ms), pending)
         /\ pending = {} => flushed(ms) = ms
         /\ flushed(ms) # ms => ms # << >>
         /\ (ms # << >> /\ IsPending(ms[Len(ms)])) => IsPending(flushed(ms)[Len(ms)])
<1>. DEFINE m == ms[Len(ms)]
            e == applyStreamingChunk(m, pending)
<1>1. CASE pending = {} \/ ~(ms # << >> /\ m.from = "assistant")
  <2>1. flushed(ms) = ms
    BY <1>1 DEF flushed, updateLastAssistantMessage
  <2>. QED BY <2>1, Untouched
<1>2. CASE pending # {} /\ ms # << >> /\ m.from = "assistant"
  <2>1. flushed(ms) = [ms EXCEPT ![Len(ms)] = e]
    BY <1>2 DEF flushed, updateLastAssistantMessage
  <2>2. m \in Message
    BY <1>2
  <2>. HIDE DEF m
  <2>3. /\ e \in Message /\ Key(e) = Key(m) /\ e.has \subseteq m.has \cup pending \cup {UserText}
        /\ IsPending(m) => IsPending(e)
    BY <2>2 DEF applyStreamingChunk, Message, TypeOK, Key, IsPending
  <2>. HIDE DEF e
  <2>4. /\ Touched(ms, [ms EXCEPT ![Len(ms)] = e], pending)
        /\ [ms EXCEPT ![Len(ms)] = e][Len(ms)] = e
    BY <1>2, <2>3, LastUpdated DEF m
  <2>. QED BY <1>2, <2>1, <2>3, <2>4 DEF m
<1>. QED BY <1>1, <1>2

\* An unfinished last message becomes complete, any other stays.
LEMMA CompletedTouches ==
  ASSUME NEW ms \in Seq(Message)
  PROVE  /\ Touched(ms, completed(ms), {}) /\ Ended(completed(ms))
         /\ Ended(ms) => completed(ms) = ms
<1>. DEFINE m == ms[Len(ms)]
            e == IF IsPending(m) THEN [m EXCEPT !.status = "complete"] ELSE m
<1>1. CASE ~(ms # << >> /\ m.from = "assistant")
  <2>1. completed(ms) = ms
    BY <1>1 DEF completed, updateLastAssistantMessage
  <2>. QED BY <1>1, <2>1, Untouched, UserFinished
<1>2. CASE ms # << >> /\ m.from = "assistant"
  <2>1. completed(ms) = [ms EXCEPT ![Len(ms)] = e]
    BY <1>2 DEF completed, updateLastAssistantMessage
  <2>2. m \in Message
    BY <1>2
  <2>. HIDE DEF m
  <2>3. /\ e \in Message /\ Key(e) = Key(m) /\ e.has \subseteq m.has \cup {} \cup {UserText}
        /\ ~IsPending(e) /\ (~IsPending(m) => e = m)
    BY <2>2 DEF Message, Key, IsPending
  <2>. HIDE DEF e
  <2>4. /\ Touched(ms, [ms EXCEPT ![Len(ms)] = e], {})
        /\ [ms EXCEPT ![Len(ms)] = e] # << >>
        /\ [ms EXCEPT ![Len(ms)] = e][Len(ms)] = e
    BY <1>2, <2>3, LastUpdated DEF m
  <2>5. Len([ms EXCEPT ![Len(ms)] = e]) = Len(ms)
    BY <2>4 DEF Touched
  <2>6. Ended(ms) => [ms EXCEPT ![Len(ms)] = e] = ms
    <3>1. Ended(ms) => e = ms[Len(ms)]
      BY <1>2, <2>3 DEF Ended, m
    <3>. QED BY <3>1
  <2>. QED BY <2>1, <2>3, <2>4, <2>5, <2>6 DEF Ended
<1>. QED BY <1>1, <1>2

\* Two updates, one after the other.
LEMMA TouchedTwice ==
  ASSUME NEW ms \in Seq(Message), NEW mid, NEW new, NEW a, NEW b,
         Touched(ms, mid, a), Touched(mid, new, b)
  PROVE  Touched(ms, new, a \cup b)
<1>1. mid \in Seq(Message) /\ new \in Seq(Message) /\ Len(mid) = Len(ms) /\ Len(new) = Len(ms)
  BY DEF Touched
<1>2. ASSUME NEW j \in 1 .. Len(ms)
      PROVE  /\ Key(new[j]) = Key(ms[j])
             /\ new[j].has \subseteq ms[j].has \cup (a \cup b) \cup {UserText}
             /\ (j # Len(ms) \/ ms[j].from = "user") => new[j] = ms[j]
  <2>1. /\ Key(new[j]) = Key(mid[j]) /\ Key(mid[j]) = Key(ms[j])
        /\ new[j].has \subseteq mid[j].has \cup b \cup {UserText}
        /\ mid[j].has \subseteq ms[j].has \cup a \cup {UserText}
        /\ (j # Len(ms) \/ ms[j].from = "user") => mid[j] = ms[j]
        /\ (j # Len(ms) \/ mid[j].from = "user") => new[j] = mid[j]
    BY <1>1 DEF Touched
  <2>. QED BY <2>1
<1>. QED BY <1>1, <1>2 DEF Touched

\* An answer that ends: what waits is shown, then the message is finished.
LEMMA CompleteTouches ==
  ASSUME TypeOK, NEW ms \in Seq(Message)
  PROVE  /\ Touched(ms, completed(flushed(ms)), pending)
         /\ Ended(completed(flushed(ms)))
         /\ (pending = {} /\ Ended(ms)) => completed(flushed(ms)) = ms
<1>1. Touched(ms, flushed(ms), pending) /\ (pending = {} => flushed(ms) = ms)
  BY FlushTouches
<1>2. flushed(ms) \in Seq(Message)
  BY <1>1 DEF Touched
<1>3. /\ Touched(flushed(ms), completed(flushed(ms)), {}) /\ Ended(completed(flushed(ms)))
      /\ Ended(flushed(ms)) => completed(flushed(ms)) = flushed(ms)
  BY <1>2, CompletedTouches
<1>4. Touched(ms, completed(flushed(ms)), pending \cup {})
  BY <1>1, <1>3, TouchedTwice
<1>5. pending \cup {} = pending
  OBVIOUS
<1>. QED BY <1>1, <1>3, <1>4, <1>5

\* The error adds its text to the last message.
LEMMA WithErrorTouches ==
  ASSUME NEW ms \in Seq(Message)
  PROVE  /\ Touched(ms, withError(ms), {}) /\ Ended(withError(ms))
<1>. DEFINE m == ms[Len(ms)]
            e == [m EXCEPT !.has = @ \cup {UserText}, !.status = "error"]
<1>1. CASE ~(ms # << >> /\ m.from = "assistant")
  <2>1. withError(ms) = ms
    BY <1>1 DEF withError, updateLastAssistantMessage
  <2>. QED BY <1>1, <2>1, Untouched, UserFinished
<1>2. CASE ms # << >> /\ m.from = "assistant"
  <2>1. withError(ms) = [ms EXCEPT ![Len(ms)] = e]
    BY <1>2 DEF withError, updateLastAssistantMessage
  <2>2. m \in Message
    BY <1>2
  <2>. HIDE DEF m
  <2>3. /\ e \in Message /\ Key(e) = Key(m) /\ e.has \subseteq m.has \cup {} \cup {UserText}
        /\ ~IsPending(e)
    BY <2>2 DEF Message, Key, IsPending, UserText
  <2>. HIDE DEF e
  <2>4. /\ Touched(ms, [ms EXCEPT ![Len(ms)] = e], {})
        /\ [ms EXCEPT ![Len(ms)] = e] # << >>
        /\ [ms EXCEPT ![Len(ms)] = e][Len(ms)] = e
    BY <1>2, <2>3, LastUpdated DEF m
  <2>5. Len([ms EXCEPT ![Len(ms)] = e]) = Len(ms)
    BY <2>4 DEF Touched
  <2>. QED BY <2>1, <2>3, <2>4, <2>5 DEF Ended
<1>. QED BY <1>1, <1>2

\* What waited is written before the error.
LEMMA ErrorTouches ==
  ASSUME TypeOK, NEW ms \in Seq(Message)
  PROVE  /\ Touched(ms, withError(flushed(ms)), pending)
         /\ Ended(withError(flushed(ms)))
<1>. DEFINE new == withError(flushed(ms))
<1>1. Touched(ms, flushed(ms), pending)
  BY FlushTouches
<1>2. flushed(ms) \in Seq(Message)
  BY <1>1 DEF Touched
<1>3. Touched(flushed(ms), new, {}) /\ Ended(new)
  BY <1>2, WithErrorTouches
<1>4. Touched(ms, new, pending \cup {})
  BY <1>1, <1>3, TouchedTwice
<1>5. pending \cup {} = pending
  OBVIOUS
<1>. QED BY <1>3, <1>4, <1>5

\* The answer of a plain request is written into the last message.
LEMMA AnswerTouches ==
  ASSUME NEW ms \in Seq(Message), NEW r \in Requests
  PROVE  Touched(ms, answered(ms, r), {r}) /\ Ended(answered(ms, r))
<1>. DEFINE m == ms[Len(ms)]
            e == [m EXCEPT !.has = @ \cup {r}, !.status = "complete"]
<1>1. CASE ~(ms # << >> /\ m.from = "assistant")
  <2>1. answered(ms, r) = ms
    BY <1>1 DEF answered, updateLastAssistantMessage
  <2>. QED BY <1>1, <2>1, Untouched, UserFinished
<1>2. CASE ms # << >> /\ m.from = "assistant"
  <2>1. answered(ms, r) = [ms EXCEPT ![Len(ms)] = e]
    BY <1>2 DEF answered, updateLastAssistantMessage
  <2>2. m \in Message
    BY <1>2
  <2>. HIDE DEF m
  <2>3. /\ e \in Message /\ Key(e) = Key(m) /\ e.has \subseteq m.has \cup {r} \cup {UserText}
        /\ ~IsPending(e)
    BY <2>2 DEF Message, Key, IsPending
  <2>. HIDE DEF e
  <2>4. /\ Touched(ms, [ms EXCEPT ![Len(ms)] = e], {r})
        /\ [ms EXCEPT ![Len(ms)] = e] # << >>
        /\ [ms EXCEPT ![Len(ms)] = e][Len(ms)] = e
    BY <1>2, <2>3, LastUpdated DEF m
  <2>5. Len([ms EXCEPT ![Len(ms)] = e]) = Len(ms)
    BY <2>4 DEF Touched
  <2>. QED BY <2>1, <2>3, <2>4, <2>5 DEF Ended
<1>. QED BY <1>1, <1>2

-----------------------------------------------------------------------------
(* What a step does to the conversations. *)

\* The types of conversations and messages, of the state and of its successor.
LEMMA ConversationTypes ==
  ASSUME NEW ss \in Seq(Conversation)
  PROVE  /\ Len(ss) \in Nat
         /\ \A i \in 1 .. Len(ss) :
              /\ ss[i] \in Conversation /\ ss[i].id \in Ids /\ ss[i].messages \in Seq(Message)
              /\ Len(ss[i].messages) \in Nat
              /\ \A j \in 1 .. Len(ss[i].messages) : ss[i].messages[j] \in Message
<1>1. Len(ss) \in Nat /\ \A i \in 1 .. Len(ss) : ss[i] \in Conversation
  OBVIOUS
<1>2. \A c \in Conversation : c.id \in Ids /\ c.messages \in Seq(Message)
  BY DEF Conversation
<1>3. \A ms \in Seq(Message) : Len(ms) \in Nat /\ \A j \in 1 .. Len(ms) : ms[j] \in Message
  OBVIOUS
<1>. QED BY <1>1, <1>2, <1>3

\* updateMessages, the new messages given for each conversation.
Rewrite(ss, X, g) ==
  [i \in 1 .. Len(ss) |-> IF ss[i].id = X THEN [ss[i] EXCEPT !.messages = g[i]] ELSE ss[i]]

\* A rewriting keeps the conversations and their ids.
LEMMA Rewritten ==
  ASSUME NEW ss \in Seq(Conversation), NEW X, NEW g,
         \A i \in 1 .. Len(ss) : ss[i].id = X => g[i] \in Seq(Message)
  PROVE  /\ Rewrite(ss, X, g) \in Seq(Conversation) /\ Len(Rewrite(ss, X, g)) = Len(ss)
         /\ \A i \in 1 .. Len(ss) :
              /\ Rewrite(ss, X, g)[i].id = ss[i].id
              /\ Rewrite(ss, X, g)[i].messages = IF ss[i].id = X THEN g[i] ELSE ss[i].messages
<1>. DEFINE t == Rewrite(ss, X, g)
<1>0. Len(ss) \in Nat /\ \A i \in 1 .. Len(ss) : ss[i] \in Conversation
  BY ConversationTypes
<1>1. ASSUME NEW i \in 1 .. Len(ss)
      PROVE  /\ t[i] \in Conversation /\ t[i].id = ss[i].id
             /\ t[i].messages = IF ss[i].id = X THEN g[i] ELSE ss[i].messages
  <2>1. ss[i] \in Conversation /\ t[i] = IF ss[i].id = X THEN [ss[i] EXCEPT !.messages = g[i]] ELSE ss[i]
    BY <1>0 DEF Rewrite
  <2>2. CASE ss[i].id = X
    <3>1. t[i] = [ss[i] EXCEPT !.messages = g[i]] /\ g[i] \in Seq(Message)
      BY <2>1, <2>2
    <3>. QED BY <2>1, <2>2, <3>1 DEF Conversation
  <2>3. CASE ss[i].id # X
    BY <2>1, <2>3
  <2>. QED BY <2>2, <2>3
<1>2. t \in Seq(Conversation) /\ Len(t) = Len(ss)
  <2>1. t = [i \in 1 .. Len(ss) |-> t[i]]
    BY DEF Rewrite
  <2>. QED BY <1>0, <1>1, <2>1
<1>. QED BY <1>1, <1>2

\* Only the last message of conversation X changes.
Writes(X, add) ==
  /\ sessions' \in Seq(Conversation) /\ Len(sessions') = Len(sessions)
  /\ \A i \in 1 .. Len(sessions) :
       /\ sessions'[i].id = sessions[i].id
       /\ sessions[i].id = X => Touched(sessions[i].messages, sessions'[i].messages, add)
       /\ sessions[i].id # X => sessions'[i].messages = sessions[i].messages

\* The last message of X is finished.
EndsIn(X) == \A i \in 1 .. Len(sessions') : sessions'[i].id = X => Ended(sessions'[i].messages)

\* A step that leaves the conversations alone.
LEMMA NothingWritten ==
  ASSUME TypeOK, UNCHANGED sessions, NEW X, NEW add
  PROVE  Writes(X, add)
<1>1. sessions \in Seq(Conversation)
  BY DEF TypeOK
<1>2. \A i \in 1 .. Len(sessions) : Touched(sessions[i].messages, sessions[i].messages, add)
  BY <1>1, ConversationTypes, Untouched
<1>. QED BY <1>1, <1>2 DEF Writes

\* flushStreamUpdates writes the chunks that wait, and an unfinished message stays so.
LEMMA FlushWrites ==
  ASSUME TypeOK, NEW X, sessions' = Rewrite(sessions, X, [i \in 1 .. Len(sessions) |->
                       flushed(sessions[i].messages)])
  PROVE  /\ Writes(X, pending)
         /\ \A i \in 1 .. Len(sessions) :
              LET ms == sessions[i].messages
              IN  (ms # << >> /\ IsPending(ms[Len(ms)])) =>
                    IsPending(sessions'[i].messages[Len(ms)])
<1>. DEFINE g == [i \in 1 .. Len(sessions) |-> flushed(sessions[i].messages)]
<1>0. sessions \in Seq(Conversation)
  BY DEF TypeOK
<1>1. ASSUME NEW i \in 1 .. Len(sessions)
      PROVE  LET ms == sessions[i].messages
             IN  /\ g[i] = flushed(ms) /\ Touched(ms, g[i], pending) /\ g[i] \in Seq(Message)
                 /\ (ms # << >> /\ IsPending(ms[Len(ms)])) => IsPending(g[i][Len(ms)])
  <2>1. sessions[i].messages \in Seq(Message) /\ g[i] = flushed(sessions[i].messages)
    BY <1>0, ConversationTypes
  <2>. HIDE DEF g
  <2>. QED BY <2>1, FlushTouches DEF Touched
<1>2. sessions' = Rewrite(sessions, X, g)
  OBVIOUS
<1>. HIDE DEF g
<1>. \A i \in 1 .. Len(sessions) : sessions[i].id = X => g[i] \in Seq(Message)
  BY <1>1
<1>3. LET t == Rewrite(sessions, X, g)
      IN  /\ t \in Seq(Conversation) /\ Len(t) = Len(sessions)
          /\ \A i \in 1 .. Len(sessions) :
               /\ t[i].id = sessions[i].id
               /\ t[i].messages = IF sessions[i].id = X THEN g[i] ELSE sessions[i].messages
  BY <1>0, Rewritten
<1>. QED BY <1>1, <1>2, <1>3 DEF Writes

\* The end of a stream, and the stop button, finish the last message.
LEMMA CompleteWrites ==
  ASSUME TypeOK, NEW X,
         sessions' = Rewrite(sessions, X, [i \in 1 .. Len(sessions) |->
                       completed(flushed(sessions[i].messages))])
  PROVE  /\ Writes(X, pending) /\ EndsIn(X)
         /\ \A i \in 1 .. Len(sessions) :
              (pending = {} /\ Ended(sessions[i].messages)) =>
                sessions'[i].messages = sessions[i].messages
<1>. DEFINE g == [i \in 1 .. Len(sessions) |-> completed(flushed(sessions[i].messages))]
<1>0. sessions \in Seq(Conversation)
  BY DEF TypeOK
<1>1. ASSUME NEW i \in 1 .. Len(sessions)
      PROVE  LET ms == sessions[i].messages
             IN  /\ Touched(ms, g[i], pending) /\ g[i] \in Seq(Message) /\ Ended(g[i])
                 /\ (pending = {} /\ Ended(ms)) => g[i] = ms
  <2>1. sessions[i].messages \in Seq(Message) /\ g[i] = completed(flushed(sessions[i].messages))
    BY <1>0, ConversationTypes
  <2>. HIDE DEF g
  <2>2. LET ms == sessions[i].messages
        IN  /\ Touched(ms, g[i], pending) /\ Ended(g[i])
            /\ (pending = {} /\ Ended(ms)) => g[i] = ms
    BY <2>1, CompleteTouches
  <2>3. g[i] \in Seq(Message)
    BY <2>2 DEF Touched
  <2>. QED BY <2>2, <2>3
<1>2. sessions' = Rewrite(sessions, X, g)
  OBVIOUS
<1>. HIDE DEF g
<1>. \A i \in 1 .. Len(sessions) : sessions[i].id = X => g[i] \in Seq(Message)
  BY <1>1
<1>3. LET t == Rewrite(sessions, X, g)
      IN  /\ t \in Seq(Conversation) /\ Len(t) = Len(sessions)
          /\ \A i \in 1 .. Len(sessions) :
               /\ t[i].id = sessions[i].id
               /\ t[i].messages = IF sessions[i].id = X THEN g[i] ELSE sessions[i].messages
  BY <1>0, Rewritten
<1>. QED BY <1>1, <1>2, <1>3 DEF Writes, EndsIn

\* handleStreamError finishes the last message with what waited and the error.
LEMMA ErrorWrites ==
  ASSUME TypeOK, NEW X,
         sessions' = Rewrite(sessions, X, [i \in 1 .. Len(sessions) |->
                       withError(flushed(sessions[i].messages))])
  PROVE  Writes(X, pending) /\ EndsIn(X)
<1>. DEFINE g == [i \in 1 .. Len(sessions) |-> withError(flushed(sessions[i].messages))]
<1>0. sessions \in Seq(Conversation)
  BY DEF TypeOK
<1>1. ASSUME NEW i \in 1 .. Len(sessions)
      PROVE  Touched(sessions[i].messages, g[i], pending) /\ g[i] \in Seq(Message) /\ Ended(g[i])
  <2>1. sessions[i].messages \in Seq(Message) /\ g[i] = withError(flushed(sessions[i].messages))
    BY <1>0, ConversationTypes
  <2>. HIDE DEF g
  <2>2. Touched(sessions[i].messages, g[i], pending) /\ Ended(g[i])
    BY <2>1, ErrorTouches
  <2>3. g[i] \in Seq(Message)
    BY <2>2 DEF Touched
  <2>. QED BY <2>2, <2>3
<1>2. sessions' = Rewrite(sessions, X, g)
  OBVIOUS
<1>. HIDE DEF g
<1>. \A i \in 1 .. Len(sessions) : sessions[i].id = X => g[i] \in Seq(Message)
  BY <1>1
<1>3. LET t == Rewrite(sessions, X, g)
      IN  /\ t \in Seq(Conversation) /\ Len(t) = Len(sessions)
          /\ \A i \in 1 .. Len(sessions) :
               /\ t[i].id = sessions[i].id
               /\ t[i].messages = IF sessions[i].id = X THEN g[i] ELSE sessions[i].messages
  BY <1>0, Rewritten
<1>. QED BY <1>1, <1>2, <1>3 DEF Writes, EndsIn

\* A response finishes the last message with the text of its request.
LEMMA AnswerWrites ==
  ASSUME TypeOK, NEW X, NEW r \in Requests,
         sessions' = Rewrite(sessions, X, [i \in 1 .. Len(sessions) |->
                       answered(sessions[i].messages, r)])
  PROVE  Writes(X, {r}) /\ EndsIn(X)
<1>. DEFINE g == [i \in 1 .. Len(sessions) |-> answered(sessions[i].messages, r)]
<1>0. sessions \in Seq(Conversation)
  BY DEF TypeOK
<1>1. ASSUME NEW i \in 1 .. Len(sessions)
      PROVE  Touched(sessions[i].messages, g[i], {r}) /\ g[i] \in Seq(Message) /\ Ended(g[i])
  <2>1. sessions[i].messages \in Seq(Message) /\ g[i] = answered(sessions[i].messages, r)
    BY <1>0, ConversationTypes
  <2>. HIDE DEF g
  <2>. QED BY <2>1, AnswerTouches DEF Touched
<1>2. sessions' = Rewrite(sessions, X, g)
  OBVIOUS
<1>. HIDE DEF g
<1>. \A i \in 1 .. Len(sessions) : sessions[i].id = X => g[i] \in Seq(Message)
  BY <1>1
<1>3. LET t == Rewrite(sessions, X, g)
      IN  /\ t \in Seq(Conversation) /\ Len(t) = Len(sessions)
          /\ \A i \in 1 .. Len(sessions) :
               /\ t[i].id = sessions[i].id
               /\ t[i].messages = IF sessions[i].id = X THEN g[i] ELSE sessions[i].messages
  BY <1>0, Rewritten
<1>. QED BY <1>1, <1>2, <1>3 DEF Writes, EndsIn

\* Conversations and keys stay.
KeysKept ==
  /\ sessions' \in Seq(Conversation) /\ Len(sessions') = Len(sessions)
  /\ \A i \in 1 .. Len(sessions) :
       /\ sessions'[i].id = sessions[i].id
       /\ Len(sessions'[i].messages) = Len(sessions[i].messages)
       /\ \A j \in 1 .. Len(sessions[i].messages) :
            Key(sessions'[i].messages[j]) = Key(sessions[i].messages[j])

\* Updates of messages keep every message in its place.
LEMMA WritesKeepKeys ==
  ASSUME NEW X, NEW add, Writes(X, add)
  PROVE  KeysKept
<1>1. ASSUME NEW i \in 1 .. Len(sessions)
      PROVE  /\ sessions'[i].id = sessions[i].id
             /\ Len(sessions'[i].messages) = Len(sessions[i].messages)
             /\ \A j \in 1 .. Len(sessions[i].messages) :
                  Key(sessions'[i].messages[j]) = Key(sessions[i].messages[j])
  BY DEF Writes, Touched
<1>. QED BY <1>1 DEF KeysKept, Writes

\* The conversation that an id names.
LEMMA MessagesAt ==
  ASSUME NEW ss, NEW a \in 1 .. Len(ss),
         \A i \in 1 .. Len(ss) : ss[i].id = ss[a].id => i = a
  PROVE  MessagesIn(ss, ss[a].id) = ss[a].messages
BY DEF MessagesIn

\* The open conversation is there once.
LEMMA OpenConversation ==
  ASSUME Distinct
  PROVE  \E a \in 1 .. Len(sessions) :
           /\ sessions[a].id = active /\ Messages = sessions[a].messages
           /\ \A i \in 1 .. Len(sessions) : sessions[i].id = active => i = a
<1>1. PICK a \in 1 .. Len(sessions) : sessions[a].id = active
  BY DEF Distinct, Exists
<1>2. \A i \in 1 .. Len(sessions) : sessions[i].id = sessions[a].id => i = a
  BY DEF Distinct
<1>. QED BY <1>1, <1>2, MessagesAt DEF Messages

\* Where messages keep their places, what is told by keys is kept.
LEMMA KeysStay ==
  ASSUME TypeOK, Distinct, KeysKept, active' = active, lastRequest' = lastRequest
  PROVE  /\ Distinct'
         /\ \E a \in 1 .. Len(sessions) :
              /\ sessions[a].id = active /\ Messages = sessions[a].messages
              /\ sessions'[a].id = active /\ Messages' = sessions'[a].messages
              /\ \A i \in 1 .. Len(sessions) : sessions[i].id = active => i = a
         /\ Len(Messages') = Len(Messages)
         /\ \A j \in 1 .. Len(Messages) : Key(Messages'[j]) = Key(Messages[j])
         /\ Awaited <=> Awaited'
<1>1. PICK a \in 1 .. Len(sessions) :
         /\ sessions[a].id = active /\ Messages = sessions[a].messages
         /\ \A i \in 1 .. Len(sessions) : sessions[i].id = active => i = a
  BY OpenConversation
<1>2. /\ sessions \in Seq(Conversation) /\ sessions' \in Seq(Conversation)
      /\ Len(sessions') = Len(sessions)
  BY DEF TypeOK, KeysKept
<1>3. /\ \A i, k \in 1 .. Len(sessions') : sessions'[i].id = sessions'[k].id => i = k
      /\ \A i \in 1 .. Len(sessions') : sessions'[i].id = sessions'[a].id => i = a
      /\ sessions'[a].id = active
  BY <1>1, <1>2 DEF KeysKept, Distinct
<1>4. Exists(active)'
  BY <1>2, <1>3 DEF Exists
<1>5. Messages' = sessions'[a].messages
  <2>1. a \in 1 .. Len(sessions')
    BY <1>2
  <2>2. MessagesIn(sessions', sessions'[a].id) = sessions'[a].messages
    BY <1>3, <2>1, MessagesAt
  <2>. QED BY <1>3, <2>2 DEF Messages
<1>6. ASSUME NEW i \in 1 .. Len(sessions'), NEW k \in 1 .. Len(sessions'),
             NEW j \in 1 .. Len(sessions'[i].messages), NEW l \in 1 .. Len(sessions'[k].messages),
             Key(sessions'[i].messages[j]) = Key(sessions'[k].messages[l])
      PROVE  i = k /\ j = l
  <2>1. /\ i \in 1 .. Len(sessions) /\ j \in 1 .. Len(sessions[i].messages)
        /\ k \in 1 .. Len(sessions) /\ l \in 1 .. Len(sessions[k].messages)
    BY <1>2 DEF KeysKept
  <2>2. /\ Key(sessions'[i].messages[j]) = Key(sessions[i].messages[j])
        /\ Key(sessions'[k].messages[l]) = Key(sessions[k].messages[l])
    BY <2>1 DEF KeysKept
  <2>3. \A x, y \in 1 .. Len(sessions) :
          \A p \in 1 .. Len(sessions[x].messages), q \in 1 .. Len(sessions[y].messages) :
            Key(sessions[x].messages[p]) = Key(sessions[y].messages[q]) => x = y /\ p = q
    BY DEF Distinct
  <2>4. Key(sessions[i].messages[j]) = Key(sessions[k].messages[l])
    BY <1>6, <2>2
  <2>. QED BY <2>1, <2>3, <2>4
<1>7. ASSUME NEW i \in 1 .. Len(sessions'), NEW j \in 1 .. Len(sessions'[i].messages)
      PROVE  sessions'[i].messages[j].req <= lastRequest'
  <2>1. /\ Key(sessions'[i].messages[j]) = Key(sessions[i].messages[j])
        /\ sessions[i].messages[j].req <= lastRequest
    BY <1>2, <1>7 DEF KeysKept, Distinct
  <2>. QED BY <2>1 DEF Key
<1>8. Distinct'
  BY <1>3, <1>4, <1>6, <1>7 DEF Distinct
<1>9. /\ Len(Messages') = Len(Messages)
      /\ \A j \in 1 .. Len(Messages) : Key(Messages'[j]) = Key(Messages[j])
  BY <1>1, <1>5 DEF KeysKept
<1>10. Messages \in Seq(Message) /\ Messages' \in Seq(Message)
  BY <1>1, <1>2, <1>5, ConversationTypes
<1>11. Awaited <=> Awaited'
  <2>1. Messages # << >> <=> Len(Messages) \in 1 .. Len(Messages)
    BY <1>10
  <2>2. Messages' # << >> <=> Len(Messages') \in 1 .. Len(Messages')
    BY <1>10
  <2>. QED BY <1>9, <2>1, <2>2 DEF Awaited
<1>. QED BY <1>1, <1>3, <1>5, <1>8, <1>9, <1>11

-----------------------------------------------------------------------------
(* Events that no drawing follows at once. *)

\* A message has a place.
LEMMA Placed ==
  ASSUME NEW m \in AllMessages
  PROVE  \E i \in 1 .. Len(sessions) : \E j \in 1 .. Len(sessions[i].messages) :
           m = sessions[i].messages[j]
BY DEF AllMessages

\* What has a place is a message.
LEMMA AtPlace ==
  ASSUME NEW i \in 1 .. Len(sessions), NEW j \in 1 .. Len(sessions[i].messages)
  PROVE  sessions[i].messages[j] \in AllMessages
BY DEF AllMessages

\* A message of the next state has a place there.
LEMMA PlacedNext ==
  ASSUME NEW m \in AllMessages'
  PROVE  \E i \in 1 .. Len(sessions') : \E j \in 1 .. Len(sessions'[i].messages) :
           m = sessions'[i].messages[j]
BY DEF AllMessages

\* The text of every message, by its place.
OwnAt == \A i \in 1 .. Len(sessions) : \A j \in 1 .. Len(sessions[i].messages) :
           Own(sessions[i].messages[j], overlapped)

\* OwnText, message by message.
LEMMA OwnByPlace == OwnText <=> (~broken => OwnAt)
BY DEF OwnText, AllMessages, OwnAt

\* The same of the next state.
LEMMA OwnByPlaceNext == OwnText' <=> (~broken' => OwnAt')
BY DEF OwnText, AllMessages, OwnAt

\* Text of its own request, or of one that overlapped, leaves a message its own.
LEMMA TouchedOwn ==
  ASSUME NEW ms \in Seq(Message), NEW new, NEW add, Touched(ms, new, add),
         \A j \in 1 .. Len(ms) : Own(ms[j], overlapped),
         ms # << >> => add \subseteq {ms[Len(ms)].req} \cup overlapped
  PROVE  \A j \in 1 .. Len(new) : Own(new[j], overlapped)
<1>. SUFFICES ASSUME NEW j \in 1 .. Len(ms) PROVE Own(new[j], overlapped)
  BY DEF Touched
<1>1. /\ Key(new[j]) = Key(ms[j]) /\ new[j].has \subseteq ms[j].has \cup add \cup {UserText}
      /\ j # Len(ms) => new[j] = ms[j]
      /\ Own(ms[j], overlapped)
  BY DEF Touched
<1>2. CASE j # Len(ms)
  BY <1>1, <1>2
<1>3. CASE j = Len(ms)
  <2>1. add \subseteq {ms[j].req} \cup overlapped
    BY <1>3
  <2>2. new[j].req = ms[j].req /\ new[j].from = ms[j].from
    BY <1>1 DEF Key
  <2>. QED BY <1>1, <2>1, <2>2 DEF Own
<1>. QED BY <1>2, <1>3

\* What a write into conversation X leaves of the invariant.
LEMMA WriteKeeps ==
  ASSUME IInv, NEW X, NEW add, Writes(X, add),
         active' = active, lastRequest' = lastRequest, overlapped' = overlapped, broken => broken',
         ~broken' => \A i \in 1 .. Len(sessions) :
           LET ms == sessions[i].messages
           IN  (sessions[i].id = X /\ ms # << >>) => add \subseteq {ms[Len(ms)].req} \cup overlapped
  PROVE  Distinct' /\ OwnText' /\ (Awaited <=> Awaited')
<1>0. TypeOK /\ Distinct /\ OwnText /\ sessions \in Seq(Conversation)
  BY DEF IInv, TypeOK
<1>1. KeysKept
  BY WritesKeepKeys
<1>2. Distinct' /\ (Awaited <=> Awaited')
  BY <1>0, <1>1, KeysStay
<1>3. OwnText'
  <2>. SUFFICES ASSUME ~broken', NEW i \in 1 .. Len(sessions')
                PROVE  \A j \in 1 .. Len(sessions'[i].messages) : Own(sessions'[i].messages[j], overlapped')
    BY OwnByPlaceNext DEF OwnAt
  <2>1. i \in 1 .. Len(sessions) /\ sessions[i].messages \in Seq(Message)
    BY <1>0, ConversationTypes DEF Writes
  <2>2. \A j \in 1 .. Len(sessions[i].messages) : Own(sessions[i].messages[j], overlapped)
    BY <1>0, <2>1, OwnByPlace DEF OwnAt
  <2>3. CASE sessions[i].id # X
    <3>1. sessions'[i].messages = sessions[i].messages
      BY <2>1, <2>3 DEF Writes
    <3>. QED BY <2>2, <3>1
  <2>4. CASE sessions[i].id = X
    <3>1. Touched(sessions[i].messages, sessions'[i].messages, add)
      BY <2>1, <2>4 DEF Writes
    <3>2. sessions[i].messages # << >> =>
            add \subseteq {sessions[i].messages[Len(sessions[i].messages)].req} \cup overlapped
      BY <2>1, <2>4
    <3>3. \A j \in 1 .. Len(sessions'[i].messages) : Own(sessions'[i].messages[j], overlapped)
      BY <2>1, <2>2, <3>1, <3>2, TouchedOwn
    <3>. QED BY <3>3
  <2>. QED BY <2>3, <2>4
<1>. QED BY <1>2, <1>3

\* What an event leaves of the invariant that writes into conversation X.
LEMMA EventKeeps ==
  ASSUME IInv, NEW X, NEW add, Writes(X, add), NotDrawn,
         overlapped' = overlapped, staleSave' = staleSave, broken => broken',
         Generating' => Generating,
         (sessions' # sessions /\ overlapped = {} /\ ~broken') => view.generating,
         ~broken' => \A i \in 1 .. Len(sessions) :
           LET ms == sessions[i].messages
           IN  (sessions[i].id = X /\ ms # << >>) => add \subseteq {ms[Len(ms)].req} \cup overlapped
  PROVE  /\ Distinct' /\ ViewFollows' /\ OwnText' /\ DrawnOwn' /\ DrawnFinished'
         /\ Awaited <=> Awaited'
<1>0. /\ active' = active /\ view' = view /\ lastRequest' = lastRequest
      /\ TypeOK /\ Distinct /\ ViewFollows /\ OwnText /\ DrawnOwn /\ DrawnFinished
      /\ sessions \in Seq(Conversation)
  BY DEF NotDrawn, bound, IInv, TypeOK
<1>1. KeysKept
  BY WritesKeepKeys
<1>2. /\ Distinct' /\ (Awaited <=> Awaited') /\ Len(Messages') = Len(Messages)
      /\ \A j \in 1 .. Len(Messages) : Key(Messages'[j]) = Key(Messages[j])
  BY <1>0, <1>1, KeysStay
<1>3. ViewFollows'
  <2>1. Generating' => view'.generating
    BY <1>0 DEF ViewFollows
  <2>2. /\ Len(view'.messages) = Len(Messages')
        /\ \A j \in 1 .. Len(Messages') : Key(view'.messages[j]) = Key(Messages'[j])
    BY <1>0, <1>2 DEF ViewFollows
  <2>3. ASSUME overlapped' = {}, ~broken', ~view'.generating PROVE view'.messages = Messages'
    <3>1. sessions' = sessions
      BY <1>0, <2>3
    <3>2. Messages' = Messages
      BY <1>0, <3>1 DEF Messages
    <3>. QED BY <1>0, <2>3, <3>2 DEF ViewFollows
  <2>. QED BY <2>1, <2>2, <2>3 DEF ViewFollows
<1>4. OwnText'
  BY <1>0, WriteKeeps
<1>5. DrawnOwn'
  BY <1>0 DEF DrawnOwn, Own
<1>6. DrawnFinished'
  BY <1>0 DEF DrawnFinished
<1>. QED BY <1>2, <1>3, <1>4, <1>5, <1>6

\* The refs agree after any step.
LEMMA WiredNext == ASSUME IInv, [Next]_vars PROVE Wired'
<1>1. Wired /\ Shaped
  BY DEF IInv, TypeOK, Shaped
<1>. QED BY <1>1, StepWired

\* The source under way: it belongs to the open conversation and to its last message.
LEMMA SourceRuns ==
  ASSUME IInv, source # NoSource
  PROVE  /\ isStreaming /\ Generating /\ view.generating /\ source.sid = active /\ Awaited
         /\ source.req # 0 /\ source.req \in overlapped \cup {lastRequest}
         /\ source.req \in Running
         /\ lastRequest \notin overlapped => source.req = lastRequest
<1>1. isStreaming /\ source.req \in 1 .. lastRequest /\ lastRequest \in Nat
  BY DEF IInv, Wired
<1>2. source.req # 0 /\ source.req \in Running
  BY <1>1 DEF Running
<1>3. Generating /\ view.generating
  BY <1>1 DEF Generating, IInv, ViewFollows
<1>4. /\ Running \subseteq overlapped \cup {lastRequest}
      /\ lastRequest \notin overlapped => Running \subseteq {lastRequest}
      /\ source.sid = active /\ Awaited
  BY DEF IInv, InFlight
<1>. QED BY <1>1, <1>2, <1>3, <1>4

\* A plain request under way that overlapped no other: it is the last one.
LEMMA RequestRuns ==
  ASSUME IInv, NEW h \in http, ~h.aborted
  PROVE  /\ h.req \in Running /\ h.req # 0
         /\ h.req \notin overlapped =>
              /\ h.req = lastRequest /\ h.sid = active /\ Awaited
              /\ h.req = controller /\ h.req = requestId /\ isRequesting /\ ~isStreaming
              /\ view.generating
<1>1. h.req \in Running
  BY DEF Running
<1>2. h.req \in 1 .. lastRequest /\ lastRequest \in Nat /\ h.req # 0
  BY DEF IInv, Wired
<1>3. ASSUME h.req \notin overlapped
      PROVE  /\ h.req = lastRequest /\ h.sid = active /\ Awaited
             /\ h.req = controller /\ h.req = requestId /\ isRequesting /\ ~isStreaming
             /\ view.generating
  <2>1. h.req = lastRequest /\ h.sid = active /\ Awaited
    BY <1>1, <1>3 DEF IInv, InFlight
  <2>2. h.req = controller /\ isRequesting /\ ~isStreaming
    BY <1>3, <2>1 DEF IInv, Wired
  <2>3. h.req = requestId
    BY <1>2, <2>2 DEF IInv, Wired
  <2>4. view.generating
    BY <2>2 DEF IInv, ViewFollows, Generating
  <2>. QED BY <2>1, <2>2, <2>3, <2>4
<1>. QED BY <1>1, <1>2, <1>3

\* The message awaited is the last of the open conversation.
LEMMA AwaitedLast ==
  ASSUME IInv, Awaited, NEW i \in 1 .. Len(sessions), sessions[i].id = active
  PROVE  LET ms == sessions[i].messages
         IN  ms # << >> /\ ms[Len(ms)].req = lastRequest /\ ms[Len(ms)].from = "assistant"
<1>1. PICK a \in 1 .. Len(sessions) :
         /\ sessions[a].id = active /\ Messages = sessions[a].messages
         /\ \A k \in 1 .. Len(sessions) : sessions[k].id = active => k = a
  BY OpenConversation DEF IInv
<1>2. Messages = sessions[i].messages
  BY <1>1
<1>. QED BY <1>2 DEF Awaited, Key

\* Whoever finishes the last message of X leaves no other unfinished, unless the
\* request that is awaited goes on elsewhere.
LEMMA EndKeeps ==
  ASSUME IInv, NEW X, NEW add, Writes(X, add), EndsIn(X),
         active' = active, lastRequest' = lastRequest, overlapped' = overlapped,
         staleSave' = staleSave, broken => broken',
         (X # active /\ lastRequest \notin overlapped /\ lastRequest \in Running)
           => lastRequest \in Running'
  PROVE  UnfinishedRuns'
<1>0. sessions \in Seq(Conversation)
  BY DEF IInv, TypeOK
<1>. SUFFICES ASSUME ~broken', ~staleSave', NEW i \in 1 .. Len(sessions'),
                     NEW j \in 1 .. Len(sessions'[i].messages),
                     IsPending(sessions'[i].messages[j]),
                     sessions'[i].messages[j].req \notin overlapped'
              PROVE  /\ sessions'[i].id = active' /\ j = Len(sessions'[i].messages)
                     /\ sessions'[i].messages[j].req = lastRequest' /\ lastRequest' \in Running'
  BY DEF UnfinishedRuns
<1>1. /\ i \in 1 .. Len(sessions) /\ sessions'[i].id = sessions[i].id
      /\ Len(sessions'[i].messages) = Len(sessions[i].messages)
  BY DEF Writes, Touched
<1>2. sessions'[i].messages \in Seq(Message)
  BY ConversationTypes DEF Writes
<1>3. ~(sessions'[i].id = X /\ j = Len(sessions'[i].messages))
  BY <1>2 DEF EndsIn, Ended
<1>4. sessions'[i].messages[j] = sessions[i].messages[j]
  <2>1. CASE sessions[i].id = X
    BY <1>1, <1>3, <2>1 DEF Writes, Touched
  <2>2. CASE sessions[i].id # X
    BY <1>1, <2>2 DEF Writes
  <2>. QED BY <2>1, <2>2
<1>5. j \in 1 .. Len(sessions[i].messages)
  BY <1>1
<1>6. /\ sessions[i].id = active /\ j = Len(sessions[i].messages)
      /\ sessions[i].messages[j].req = lastRequest /\ lastRequest \in Running
  BY <1>1, <1>4, <1>5 DEF IInv, UnfinishedRuns
<1>7. X # active /\ lastRequest \notin overlapped
  BY <1>1, <1>3, <1>4, <1>6
<1>. QED BY <1>1, <1>4, <1>6, <1>7

\* A chunk arrives and waits.
LEMMA UpdateKeeps ==
  ASSUME IInv, HandleStreamUpdate, Wired'
  PROVE  IInv'
<1>0. /\ source.live /\ pending' = pending \cup {source.req}
      /\ timer' = IF timer = NoId THEN source.sid ELSE timer
      /\ UNCHANGED <<sessions, source, isStreaming, http, controller, requestId, isRequesting,
                     overlapped, broken, staleSave, active, editing, view, lastRequest, edits>>
      /\ NotDrawn
  BY DEF HandleStreamUpdate, stream, plain, history, NotDrawn, bound
<1>1. source # NoSource
  BY <1>0, Lives DEF IInv, Wired
<1>2. /\ source.sid = active /\ source.req # 0
  BY <1>1, SourceRuns
<1>3. TypeOK'
  BY <1>0, <1>2 DEF IInv, TypeOK
<1>4. /\ Distinct' /\ ViewFollows' /\ OwnText' /\ DrawnOwn' /\ DrawnFinished'
      /\ UnfinishedRuns' /\ WaitsForMessage'
  BY <1>0 DEF IInv, Distinct, Exists, ViewFollows, Generating, Messages, OwnText, AllMessages,
       DrawnOwn, DrawnFinished, UnfinishedRuns, WaitsForMessage, Running
<1>5. InFlight'
  <2>1. Running' = Running /\ (Awaited <=> Awaited')
    BY <1>0 DEF Running, Awaited, Messages
  <2>2. ~broken => /\ pending' \subseteq ({source.req} \ {0}) \cup overlapped
                   /\ timer' # NoId => timer' = active
    BY <1>0, <1>2 DEF IInv, InFlight
  <2>. QED BY <1>0, <1>1, <2>1, <2>2 DEF IInv, InFlight
<1>. QED BY <1>3, <1>4, <1>5 DEF IInv

\* The timer fires: what waits goes into the message that is awaited.
LEMMA FlushKeeps ==
  ASSUME IInv, FlushTimer, Wired'
  PROVE  IInv'
<1>0. /\ timer # NoId /\ pending' = {} /\ timer' = NoId
      /\ UNCHANGED <<source, isStreaming, http, controller, requestId, isRequesting,
                     overlapped, broken, staleSave, active, editing, view, lastRequest, edits>>
      /\ NotDrawn
  BY DEF FlushTimer, stream, plain, history, NotDrawn, bound
<1>1. sessions' = Rewrite(sessions, timer, [i \in 1 .. Len(sessions) |-> flushed(sessions[i].messages)])
  BY DEF FlushTimer, updateMessages, Rewrite
<1>2. /\ Writes(timer, pending)
      /\ \A i \in 1 .. Len(sessions) :
           LET ms == sessions[i].messages
           IN  (ms # << >> /\ IsPending(ms[Len(ms)])) =>
                 IsPending(sessions'[i].messages[Len(ms)])
  BY <1>1, FlushWrites DEF IInv
<1>3. ASSUME ~broken
      PROVE  /\ source # NoSource /\ timer = active /\ Awaited /\ view.generating
             /\ pending \subseteq {lastRequest} \cup overlapped
             /\ lastRequest \notin overlapped => lastRequest \in Running
  <2>1. source # NoSource /\ timer = active /\ pending \subseteq ({source.req} \ {0}) \cup overlapped
    BY <1>0, <1>3 DEF IInv, InFlight
  <2>. QED BY <2>1, SourceRuns
<1>4. Generating' = Generating /\ Running' = Running
  BY <1>0 DEF Generating, Running
<1>5. ASSUME ~broken, NEW i \in 1 .. Len(sessions), sessions[i].id = timer
      PROVE  LET ms == sessions[i].messages
             IN  ms # << >> /\ ms[Len(ms)].req = lastRequest
                 /\ pending \subseteq {ms[Len(ms)].req} \cup overlapped
  BY <1>3, <1>5, AwaitedLast
<1>6. /\ Distinct' /\ ViewFollows' /\ OwnText' /\ DrawnOwn' /\ DrawnFinished'
      /\ Awaited <=> Awaited'
  <2>1. (sessions' # sessions /\ overlapped = {} /\ ~broken') => view.generating
    BY <1>0, <1>3
  <2>2. ~broken' => \A i \in 1 .. Len(sessions) :
           LET ms == sessions[i].messages
           IN  (sessions[i].id = timer /\ ms # << >>) =>
                 pending \subseteq {ms[Len(ms)].req} \cup overlapped
    BY <1>0, <1>5
  <2>. QED BY <1>0, <1>2, <1>4, <2>1, <2>2, EventKeeps
<1>7. TypeOK'
  BY <1>0, <1>2 DEF IInv, TypeOK, Writes
<1>8. InFlight'
  BY <1>0, <1>4, <1>6 DEF IInv, InFlight
<1>9. UnfinishedRuns'
  <2>. SUFFICES ASSUME ~broken', ~staleSave', NEW i \in 1 .. Len(sessions'),
                       NEW j \in 1 .. Len(sessions'[i].messages),
                       IsPending(sessions'[i].messages[j]),
                       sessions'[i].messages[j].req \notin overlapped'
                PROVE  /\ sessions'[i].id = active' /\ j = Len(sessions'[i].messages)
                       /\ sessions'[i].messages[j].req = lastRequest' /\ lastRequest' \in Running'
    BY DEF UnfinishedRuns
  <2>1. /\ i \in 1 .. Len(sessions) /\ sessions'[i].id = sessions[i].id
        /\ Len(sessions'[i].messages) = Len(sessions[i].messages)
    BY <1>2 DEF Writes, Touched
  <2>2. CASE sessions[i].id = timer /\ j = Len(sessions[i].messages)
    <3>1. sessions'[i].messages[j].req = sessions[i].messages[j].req
      BY <1>2, <2>1, <2>2 DEF Writes, Touched, Key
    <3>2. sessions[i].messages[j].req = lastRequest
      BY <1>0, <1>5, <2>1, <2>2
    <3>. QED BY <1>0, <1>3, <1>4, <2>1, <2>2, <3>1, <3>2
  <2>3. CASE ~(sessions[i].id = timer /\ j = Len(sessions[i].messages))
    <3>1. sessions'[i].messages[j] = sessions[i].messages[j]
      BY <1>2, <2>1, <2>3 DEF Writes, Touched
    <3>2. /\ sessions[i].id = active /\ j = Len(sessions[i].messages)
          /\ sessions[i].messages[j].req = lastRequest /\ lastRequest \in Running
      BY <1>0, <2>1, <3>1 DEF IInv, UnfinishedRuns
    <3>. QED BY <1>0, <1>4, <2>1, <3>1, <3>2
  <2>. QED BY <2>2, <2>3
<1>10. WaitsForMessage'
  <2>. SUFFICES ASSUME ~broken', ~staleSave', overlapped' = {}, Generating'
                PROVE  Messages' # << >> /\ IsPending(Messages'[Len(Messages')])
    BY DEF WaitsForMessage
  <2>1. Messages # << >> /\ IsPending(Messages[Len(Messages)])
    BY <1>0, <1>4 DEF IInv, WaitsForMessage
  <2>2. KeysKept
    BY <1>2, WritesKeepKeys
  <2>3. PICK a \in 1 .. Len(sessions) :
          Messages = sessions[a].messages /\ Messages' = sessions'[a].messages
    BY <1>0, <2>2, KeysStay DEF IInv
  <2>4. Len(Messages') = Len(Messages) /\ Messages' # << >>
    <3>1. Len(Messages') = Len(Messages) /\ (Awaited <=> Awaited')
      BY <1>0, <2>2, KeysStay DEF IInv
    <3>2. Awaited
      BY <1>0, <1>3
    <3>. QED BY <3>1, <3>2 DEF Awaited
  <2>. QED BY <1>2, <2>1, <2>3, <2>4
<1>. QED BY <1>6, <1>7, <1>8, <1>9, <1>10 DEF IInv

\* The answer is complete.
LEMMA CompleteKeeps ==
  ASSUME IInv, HandleStreamComplete, Wired'
  PROVE  IInv'
<1>0. /\ source.live /\ source' = NoSource /\ isStreaming' = FALSE /\ isRequesting' = FALSE
      /\ pending' = {} /\ timer' = NoId
      /\ UNCHANGED <<http, controller, requestId,
                     overlapped, broken, staleSave, active, editing, view, lastRequest, edits>>
      /\ NotDrawn
  BY DEF HandleStreamComplete, plain, history, NotDrawn, bound
<1>1. sessions' = Rewrite(sessions, source.sid,
                     [i \in 1 .. Len(sessions) |-> completed(flushed(sessions[i].messages))])
  BY DEF HandleStreamComplete, updateMessages, Rewrite
<1>2. source # NoSource
  BY <1>0, Lives DEF IInv, Wired
<1>3. /\ Generating /\ view.generating /\ source.sid = active /\ Awaited
      /\ source.req \in overlapped \cup {lastRequest}
  BY <1>2, SourceRuns
<1>4. Writes(active, pending) /\ EndsIn(active)
  BY <1>1, <1>3, CompleteWrites DEF IInv
<1>5. ~Generating' /\ Running' \subseteq Running
  BY <1>0 DEF Generating, Running, NoSource
<1>6. /\ Distinct' /\ ViewFollows' /\ OwnText' /\ DrawnOwn' /\ DrawnFinished'
      /\ Awaited <=> Awaited'
  <2>1. ~broken' => \A i \in 1 .. Len(sessions) :
           LET ms == sessions[i].messages
           IN  (sessions[i].id = active /\ ms # << >>) =>
                 pending \subseteq {ms[Len(ms)].req} \cup overlapped
    <3>1. ~broken' => pending \subseteq ({source.req} \ {0}) \cup overlapped
      BY <1>0 DEF IInv, InFlight
    <3>. QED BY <1>3, <3>1, AwaitedLast
  <2>. QED BY <1>0, <1>3, <1>4, <1>5, <2>1, EventKeeps
<1>7. TypeOK'
  BY <1>0, <1>4 DEF IInv, TypeOK, Writes, NoSource
<1>8. InFlight'
  BY <1>0, <1>5, <1>6 DEF IInv, InFlight
<1>9. UnfinishedRuns'
  BY <1>0, <1>4, EndKeeps
<1>10. WaitsForMessage'
  BY <1>5 DEF WaitsForMessage
<1>. QED BY <1>6, <1>7, <1>8, <1>9, <1>10 DEF IInv

\* The answer fails.
LEMMA ErrorKeeps ==
  ASSUME IInv, NEW more \in BOOLEAN, HandleStreamError(more), Wired'
  PROVE  IInv'
<1>0. /\ source.live /\ source' = NoSource /\ isStreaming' = FALSE /\ isRequesting' = FALSE
      /\ pending' = (IF more THEN {source.req} ELSE {})
      /\ timer' = (IF more THEN source.sid ELSE NoId)
      /\ broken' = (broken \/ more)
      /\ UNCHANGED <<http, controller, requestId,
                     overlapped, staleSave, active, editing, view, lastRequest, edits>>
      /\ NotDrawn
  BY DEF HandleStreamError, plain, NotDrawn, bound
<1>1. sessions' = Rewrite(sessions, source.sid,
                     [i \in 1 .. Len(sessions) |-> withError(flushed(sessions[i].messages))])
  BY DEF HandleStreamError, updateMessages, Rewrite
<1>2. source # NoSource
  BY <1>0, Lives DEF IInv, Wired
<1>3. /\ Generating /\ view.generating /\ source.sid = active /\ Awaited /\ source.req # 0
      /\ source.req \in overlapped \cup {lastRequest}
  BY <1>2, SourceRuns
<1>4. Writes(active, pending) /\ EndsIn(active)
  BY <1>1, <1>3, ErrorWrites DEF IInv
<1>5. ~Generating' /\ Running' \subseteq Running
  BY <1>0 DEF Generating, Running, NoSource
<1>6. /\ Distinct' /\ ViewFollows' /\ OwnText' /\ DrawnOwn' /\ DrawnFinished'
      /\ Awaited <=> Awaited'
  <2>1. ~broken' => \A i \in 1 .. Len(sessions) :
           LET ms == sessions[i].messages
           IN  (sessions[i].id = active /\ ms # << >>) =>
                 pending \subseteq {ms[Len(ms)].req} \cup overlapped
    <3>1. ~broken' => pending \subseteq ({source.req} \ {0}) \cup overlapped
      BY <1>0 DEF IInv, InFlight
    <3>. QED BY <1>3, <3>1, AwaitedLast
  <2>. QED BY <1>0, <1>3, <1>4, <1>5, <2>1, EventKeeps
<1>7. TypeOK'
  BY <1>0, <1>3, <1>4 DEF IInv, TypeOK, Writes, NoSource
<1>8. InFlight'
  BY <1>0, <1>5, <1>6 DEF IInv, InFlight
<1>9. UnfinishedRuns'
  BY <1>0, <1>4, EndKeeps
<1>10. WaitsForMessage'
  BY <1>5 DEF WaitsForMessage
<1>. QED BY <1>6, <1>7, <1>8, <1>9, <1>10 DEF IInv

\* The connection ends: nothing but the source's live takes note.
LEMMA ConnectionEndsKeeps ==
  ASSUME IInv, ConnectionEnds, Wired'
  PROVE  IInv'
<1>0. /\ source.live /\ source' = [source EXCEPT !.live = FALSE]
      /\ UNCHANGED <<sessions, isStreaming, http, controller, requestId, isRequesting, pending, timer,
                     overlapped, broken, staleSave, active, editing, view, lastRequest, edits>>
  BY DEF ConnectionEnds, plain, buffer, history, NotDrawn, bound
<1>1. source # NoSource
  BY <1>0, Lives DEF IInv, Wired
<1>2. source.req # 0
  BY <1>1, SourceRuns
<1>3. /\ TypeOK' /\ source'.req = source.req /\ source'.sid = source.sid
  BY <1>0 DEF IInv, TypeOK
<1>4. source' # NoSource /\ Running' = Running
  BY <1>0, <1>2, <1>3 DEF NoSource, Running
<1>5. /\ Distinct' /\ ViewFollows' /\ OwnText' /\ DrawnOwn' /\ DrawnFinished'
      /\ UnfinishedRuns' /\ WaitsForMessage'
  BY <1>0, <1>4 DEF IInv, Distinct, Exists, ViewFollows, Generating, Messages, OwnText, AllMessages,
       DrawnOwn, DrawnFinished, UnfinishedRuns, WaitsForMessage
<1>6. InFlight'
  <2>1. Awaited <=> Awaited'
    BY <1>0 DEF Awaited, Messages
  <2>. QED BY <1>0, <1>1, <1>3, <1>4, <2>1 DEF IInv, InFlight
<1>. QED BY <1>3, <1>5, <1>6 DEF IInv

\* A plain request is over: what its finally leaves of the invariant, whatever it
\* has written into its conversation.
LEMMA FinallyKeeps ==
  ASSUME IInv, NEW h \in http, NEW otherwise \in BOOLEAN, NEW add, Finally(h, otherwise), Wired',
         h.aborted => sessions' = sessions,
         otherwise => isRequesting,
         ~h.aborted => Writes(h.sid, add) /\ EndsIn(h.sid),
         (~h.aborted /\ ~broken) => add \subseteq {h.req} \cup overlapped,
         (pending' = pending /\ timer' = timer) \/ (pending' = {} /\ timer' = NoId)
  PROVE  IInv'
<1>0. /\ http' = http \ {h}
      /\ controller' = (IF requestId = h.req THEN 0 ELSE controller)
      /\ isRequesting' = (IF requestId = h.req THEN FALSE ELSE otherwise)
      /\ UNCHANGED <<source, isStreaming, requestId, overlapped, broken, staleSave,
                     active, editing, view, lastRequest, edits>>
      /\ NotDrawn
  BY DEF Finally, stream, history, NotDrawn, bound
<1>1. Generating' => Generating
  BY <1>0 DEF Generating
<1>2. /\ Running' \subseteq Running
      /\ \A r \in Running : (h.aborted \/ r # h.req) => r \in Running'
  <2>1. \A k \in http : k.req = h.req => k = h
    BY DEF IInv, Wired
  <2>. QED BY <1>0, <2>1 DEF Running
<1>3. PICK e : Writes(h.sid, e) /\ (h.aborted => e = {}) /\ (~h.aborted => e = add)
  <2>1. CASE h.aborted
    BY <2>1, NothingWritten DEF IInv
  <2>2. CASE ~h.aborted
    BY <2>2
  <2>. QED BY <2>1, <2>2
<1>4. /\ Distinct' /\ ViewFollows' /\ OwnText' /\ DrawnOwn' /\ DrawnFinished'
      /\ Awaited <=> Awaited'
  <2>1. (sessions' # sessions /\ overlapped = {} /\ ~broken') => view.generating
    BY RequestRuns
  <2>2. ASSUME ~broken', NEW i \in 1 .. Len(sessions), sessions[i].id = h.sid,
               sessions[i].messages # << >>
        PROVE  LET ms == sessions[i].messages IN e \subseteq {ms[Len(ms)].req} \cup overlapped
    <3>0. ~h.aborted => e \subseteq {h.req} \cup overlapped
      BY <1>0, <1>3, <2>2
    <3>1. CASE h.aborted
      BY <1>3, <3>1
    <3>2. CASE ~h.aborted /\ h.req \in overlapped
      BY <3>0, <3>2
    <3>3. CASE ~h.aborted /\ h.req \notin overlapped
      <4>1. h.req = lastRequest /\ h.sid = active /\ Awaited
        BY <3>3, RequestRuns
      <4>. QED BY <2>2, <3>0, <3>3, <4>1, AwaitedLast
    <3>. QED BY <3>1, <3>2, <3>3
  <2>. QED BY <1>0, <1>1, <1>3, <2>1, <2>2, EventKeeps
<1>5. TypeOK'
  BY <1>0, <1>3 DEF IInv, TypeOK, Writes
<1>6. InFlight'
  <2>1. ASSUME overlapped' = {}, isRequesting', ~isStreaming' PROVE \E k \in http' : ~k.aborted
    <3>1. isRequesting /\ requestId # h.req
      BY <1>0, <2>1
    <3>2. PICK k \in http : ~k.aborted
      BY <1>0, <2>1, <3>1 DEF IInv, InFlight
    <3>3. k.req = requestId
      BY <1>0, <2>1, <3>2, RequestRuns
    <3>. QED BY <1>0, <3>1, <3>2, <3>3
  <2>2. /\ Running' \subseteq overlapped' \cup {lastRequest'}
        /\ lastRequest' \notin overlapped' => Running' \subseteq {lastRequest'}
        /\ overlapped' \subseteq 1 .. lastRequest'
    BY <1>0, <1>2 DEF IInv, InFlight
  <2>3. /\ source' # NoSource => source'.sid = active' /\ Awaited'
        /\ \A k \in http' : (~k.aborted /\ k.req \notin overlapped') => k.sid = active' /\ Awaited'
    BY <1>0, <1>4 DEF IInv, InFlight
  <2>4. ~broken' => /\ pending' \subseteq ({source'.req} \ {0}) \cup overlapped'
                    /\ pending' # {} => source' # NoSource
                    /\ timer' # NoId => source' # NoSource /\ timer' = active'
    BY <1>0 DEF IInv, InFlight
  <2>. QED BY <2>1, <2>2, <2>3, <2>4 DEF InFlight
<1>7. UnfinishedRuns'
  <2>1. CASE h.aborted
    BY <1>0, <1>2, <2>1 DEF IInv, UnfinishedRuns
  <2>2. CASE ~h.aborted
    <3>1. (h.sid # active /\ lastRequest \notin overlapped /\ lastRequest \in Running)
            => lastRequest \in Running'
      BY <1>2, <2>2, RequestRuns
    <3>. QED BY <1>0, <2>2, <3>1, EndKeeps
  <2>. QED BY <2>1, <2>2
<1>8. WaitsForMessage'
  <2>1. CASE h.aborted
    BY <1>0, <1>1, <2>1 DEF IInv, WaitsForMessage, Messages
  <2>2. CASE ~h.aborted
    <3>1. overlapped = {} => ~Generating'
      BY <1>0, <2>2, RequestRuns DEF Generating
    <3>. QED BY <1>0, <3>1 DEF WaitsForMessage
  <2>. QED BY <2>1, <2>2
<1>. QED BY <1>4, <1>5, <1>6, <1>7, <1>8 DEF IInv

\* The response of a plain request.
LEMMA ResponseKeeps ==
  ASSUME IInv, NEW h \in http, ResponseArrives(h), Wired'
  PROVE  IInv'
<1>1. /\ Finally(h, isRequesting) /\ pending' = pending /\ timer' = timer
      /\ h.aborted => sessions' = sessions
  BY DEF ResponseArrives, buffer
<1>2. /\ ~h.aborted => Writes(h.sid, {h.req}) /\ EndsIn(h.sid)
      /\ {h.req} \subseteq {h.req} \cup overlapped
  <2>1. h.req \in Requests
    BY DEF IInv, TypeOK
  <2>2. ~h.aborted => sessions' = Rewrite(sessions, h.sid,
                     [i \in 1 .. Len(sessions) |-> answered(sessions[i].messages, h.req)])
    BY DEF ResponseArrives, updateMessages, Rewrite
  <2>. QED BY <2>1, <2>2, AnswerWrites DEF IInv
<1>3. isRequesting \in BOOLEAN /\ (isRequesting => isRequesting)
  BY DEF IInv, TypeOK
<1>. QED BY <1>1, <1>2, <1>3, FinallyKeeps

\* A plain request that fails.
LEMMA FailureKeeps ==
  ASSUME IInv, NEW h \in http, RequestFails(h), Wired'
  PROVE  IInv'
<1>. DEFINE otherwise == IF h.aborted THEN isRequesting ELSE FALSE
<1>1. otherwise \in BOOLEAN /\ (otherwise => isRequesting)
  BY DEF IInv, TypeOK
<1>2. /\ Finally(h, otherwise)
      /\ h.aborted => sessions' = sessions
      /\ (pending' = pending /\ timer' = timer) \/ (pending' = {} /\ timer' = NoId)
  BY DEF RequestFails, buffer
<1>3. ~h.aborted => Writes(h.sid, pending) /\ EndsIn(h.sid)
  <2>1. ~h.aborted => sessions' = Rewrite(sessions, h.sid,
                     [i \in 1 .. Len(sessions) |-> withError(flushed(sessions[i].messages))])
    BY DEF RequestFails, updateMessages, Rewrite
  <2>. QED BY <2>1, ErrorWrites DEF IInv
<1>4. ASSUME ~h.aborted, ~broken PROVE pending \subseteq {h.req} \cup overlapped
  <2>1. /\ pending \subseteq ({source.req} \ {0}) \cup overlapped
        /\ pending # {} => source # NoSource
    BY <1>4 DEF IInv, InFlight
  <2>2. CASE pending = {}
    BY <2>2
  <2>3. CASE source # NoSource
    <3>1. source.req \in Running /\ source.req \in overlapped \cup {lastRequest}
      BY <2>3, SourceRuns
    <3>2. h.req \in Running
      BY <1>4 DEF Running
    <3>3. lastRequest \notin overlapped => Running \subseteq {lastRequest}
      BY DEF IInv, InFlight
    <3>. QED BY <2>1, <3>1, <3>2, <3>3
  <2>. QED BY <2>1, <2>2, <2>3
<1>. HIDE DEF otherwise
<1>. QED BY <1>1, <1>2, <1>3, <1>4, FinallyKeeps

-----------------------------------------------------------------------------
(* Clicks, which a drawing follows at once. *)

\* The open conversation of the next state is there once.
LEMMA OpenConversationNext ==
  ASSUME Distinct'
  PROVE  \E a \in 1 .. Len(sessions') :
           /\ sessions'[a].id = active' /\ Messages' = sessions'[a].messages
           /\ \A i \in 1 .. Len(sessions') : sessions'[i].id = active' => i = a
<1>1. PICK a \in 1 .. Len(sessions') : sessions'[a].id = active'
  BY DEF Distinct, Exists
<1>2. \A i \in 1 .. Len(sessions') : sessions'[i].id = sessions'[a].id => i = a
  BY DEF Distinct
<1>3. MessagesIn(sessions', sessions'[a].id) = sessions'[a].messages
  BY <1>2, MessagesAt
<1>. QED BY <1>1, <1>2, <1>3 DEF Messages

\* Types of the drawing.
LEMMA DrawnTyped ==
  ASSUME Drawn, Distinct', sessions' \in Seq(Conversation),
         isStreaming' \in BOOLEAN, isRequesting' \in BOOLEAN
  PROVE  view' \in [messages : Seq(Message), generating : BOOLEAN]
<1>1. PICK a \in 1 .. Len(sessions') : Messages' = sessions'[a].messages
  BY OpenConversationNext
<1>2. Messages' \in Seq(Message)
  BY <1>1, ConversationTypes
<1>3. view' = [messages |-> Messages', generating |-> isStreaming' \/ isRequesting']
  BY DEF Drawn, Messages
<1>. QED BY <1>2, <1>3

\* What is drawn is what is there.
LEMMA DrawnKeeps ==
  ASSUME Drawn, TypeOK', Wired', Distinct', InFlight', OwnText', UnfinishedRuns'
  PROVE  ViewFollows' /\ DrawnOwn' /\ DrawnFinished'
<1>1. PICK a \in 1 .. Len(sessions') : sessions'[a].id = active' /\ Messages' = sessions'[a].messages
  BY OpenConversationNext
<1>2. view'.messages = Messages' /\ (view'.generating <=> Generating')
  BY DEF Drawn, Messages, Generating
<1>3. ViewFollows'
  BY <1>2 DEF ViewFollows
<1>4. DrawnOwn'
  <2>1. ~broken' => \A j \in 1 .. Len(sessions'[a].messages) : Own(sessions'[a].messages[j], overlapped')
    BY OwnByPlaceNext DEF OwnAt
  <2>. QED BY <1>1, <1>2, <2>1 DEF DrawnOwn
<1>5. DrawnFinished'
  <2>. SUFFICES ASSUME ~broken', ~staleSave', ~Generating', NEW j \in 1 .. Len(sessions'[a].messages),
                       IsPending(sessions'[a].messages[j]),
                       sessions'[a].messages[j].req \notin overlapped'
                PROVE  FALSE
    BY <1>1, <1>2 DEF DrawnFinished
  <2>1. lastRequest' \in Running' /\ lastRequest' \notin overlapped'
    BY DEF UnfinishedRuns
  <2>2. source' = NoSource /\ ~isRequesting'
    BY DEF Wired, Generating
  <2>3. \A h \in http' : h.aborted
    BY <2>1, <2>2 DEF Wired
  <2>4. Running' = {}
    BY <2>2, <2>3 DEF Running, NoSource
  <2>. QED BY <2>1, <2>4
<1>. QED BY <1>3, <1>4, <1>5

\* Only the editor or the drawing changes.
LEMMA DrawingKeeps ==
  ASSUME IInv, Wired', Drawn, editing' \in ((Requests \cup {0}) \X {"user", "assistant", "none"}),
         edits' \in 0 .. MaxEdits,
         UNCHANGED <<sessions, active, stream, plain, buffer, isRequesting, lastRequest, history>>
  PROVE  IInv'
<1>0. UNCHANGED <<sessions, source, isStreaming, http, controller, requestId, isRequesting, pending,
                  timer, overlapped, broken, staleSave, active, lastRequest>>
  BY DEF stream, plain, buffer, history
<1>1. Distinct' /\ OwnText' /\ UnfinishedRuns' /\ WaitsForMessage'
  BY <1>0 DEF IInv, Distinct, Exists, Generating, Messages, OwnText, AllMessages,
       UnfinishedRuns, WaitsForMessage, Running
<1>2. InFlight'
  <2>1. Running' = Running /\ (Awaited <=> Awaited')
    BY <1>0 DEF Running, Awaited, Messages
  <2>. QED BY <1>0, <2>1 DEF IInv, InFlight
<1>3. TypeOK'
  <2>1. view' \in [messages : Seq(Message), generating : BOOLEAN]
    BY <1>0, <1>1, DrawnTyped DEF IInv, TypeOK
  <2>. QED BY <1>0, <2>1 DEF IInv, TypeOK
<1>. QED BY <1>1, <1>2, <1>3, DrawnKeeps DEF IInv

\* The stop button.
LEMMA StopKeeps ==
  ASSUME IInv, StopGeneration, Wired'
  PROVE  IInv'
<1>. DEFINE stop(h) == IF h.req = controller THEN [h EXCEPT !.aborted = TRUE] ELSE h
<1>0. /\ source' = NoSource /\ isStreaming' = FALSE /\ isRequesting' = FALSE
      /\ pending' = {} /\ timer' = NoId /\ controller' = 0
      /\ http' = {stop(h) : h \in http} /\ Drawn
      /\ UNCHANGED <<requestId, overlapped, broken, staleSave, active, editing, lastRequest, edits>>
  BY DEF StopGeneration, history, bound
<1>1. sessions' = Rewrite(sessions, active,
                     [i \in 1 .. Len(sessions) |-> completed(flushed(sessions[i].messages))])
  BY DEF StopGeneration, updateMessages, Rewrite
<1>2. Writes(active, pending) /\ EndsIn(active)
  BY <1>1, CompleteWrites DEF IInv
<1>3. ASSUME NEW h \in http
      PROVE  /\ stop(h) \in [req : Requests, sid : Ids, aborted : BOOLEAN]
             /\ ~stop(h).aborted => stop(h) = h /\ ~h.aborted
  <2>1. h \in [req : Requests, sid : Ids, aborted : BOOLEAN]
    BY DEF IInv, TypeOK
  <2>. QED BY <2>1
<1>4. \A h \in http' : \E k \in http : h = stop(k)
  BY <1>0
<1>. HIDE DEF stop
<1>5. \A h \in http' : ~h.aborted => h \in http
  BY <1>3, <1>4
<1>6. ~Generating' /\ Running' \subseteq Running
  BY <1>0, <1>5 DEF Generating, Running, NoSource
<1>7. Distinct' /\ OwnText' /\ (Awaited <=> Awaited')
  <2>1. ASSUME ~broken', NEW i \in 1 .. Len(sessions), sessions[i].id = active
        PROVE  LET ms == sessions[i].messages
               IN  ms # << >> => pending \subseteq {ms[Len(ms)].req} \cup overlapped
    <3>1. /\ pending \subseteq ({source.req} \ {0}) \cup overlapped
          /\ pending # {} => source # NoSource
      BY <1>0, <2>1 DEF IInv, InFlight
    <3>2. CASE source # NoSource
      <4>1. Awaited /\ source.req \in overlapped \cup {lastRequest}
        BY <3>2, SourceRuns
      <4>. QED BY <2>1, <3>1, <4>1, AwaitedLast
    <3>3. CASE pending = {}
      BY <3>3
    <3>. QED BY <3>1, <3>2, <3>3
  <2>. QED BY <1>0, <1>2, <2>1, WriteKeeps
<1>8. TypeOK'
  <2>1. view' \in [messages : Seq(Message), generating : BOOLEAN]
    BY <1>0, <1>2, <1>7, DrawnTyped DEF Writes
  <2>2. http' \subseteq [req : Requests, sid : Ids, aborted : BOOLEAN]
    BY <1>3, <1>4
  <2>. QED BY <1>0, <1>2, <2>1, <2>2 DEF IInv, TypeOK, Writes, NoSource
<1>9. InFlight'
  BY <1>0, <1>5, <1>6, <1>7 DEF IInv, InFlight
<1>10. UnfinishedRuns'
  BY <1>0, <1>2, EndKeeps
<1>11. WaitsForMessage'
  BY <1>6 DEF WaitsForMessage
<1>. QED BY <1>0, <1>7, <1>8, <1>9, <1>10, <1>11, DrawnKeeps DEF IInv

\* A page that shows no answer under way has none but of requests that overlapped.
LEMMA Quiet ==
  ASSUME IInv, ~view.generating
  PROVE  /\ ~Generating /\ ~isStreaming /\ ~isRequesting /\ source = NoSource
         /\ \A h \in http : ~h.aborted => h.req \in overlapped
         /\ lastRequest \in Running => lastRequest \in overlapped
<1>1. ~Generating /\ ~isStreaming /\ ~isRequesting /\ source = NoSource
  BY DEF IInv, ViewFollows, Generating, Wired
<1>2. \A h \in http : ~h.aborted => h.req \in overlapped
  BY RequestRuns
<1>3. lastRequest \in Running => lastRequest \in overlapped
  BY <1>1, <1>2 DEF Running, NoSource
<1>. QED BY <1>1, <1>2, <1>3

\* Every message of the successor is one of the state: that of row and column.
From(row, col) ==
  /\ \A i \in 1 .. Len(sessions') : \A j \in 1 .. Len(sessions'[i].messages) :
       /\ row[i] \in 1 .. Len(sessions)
       /\ col[i][j] \in 1 .. Len(sessions[row[i]].messages)
       /\ sessions'[i].messages[j] = sessions[row[i]].messages[col[i][j]]
       /\ \A k \in 1 .. Len(sessions') : row[i] = row[k] => i = k
       /\ \A l \in 1 .. Len(sessions'[i].messages) : col[i][j] = col[i][l] => j = l

\* The editor after a click.
EditorTyped == /\ editing' \in ((Requests \cup {0}) \X {"user", "assistant", "none"})
               /\ edits' \in 0 .. MaxEdits

\* The conversations after a click.
Arranged ==
  /\ active' \in Ids /\ sessions' \in Seq(Conversation)
  /\ \E i \in 1 .. Len(sessions') : sessions'[i].id = active'
  /\ \A i, k \in 1 .. Len(sessions') : sessions'[i].id = sessions'[k].id => i = k

\* A click on a quiet page that at most drops messages.
LEMMA QuietKeeps ==
  ASSUME IInv, ~view.generating, Wired', Drawn,
         UNCHANGED <<stream, plain, buffer, isRequesting, lastRequest, history>>,
         EditorTyped, Arranged, NEW row, NEW col, From(row, col)
  PROVE  IInv' /\ AllMessages' \subseteq AllMessages
<1>0. UNCHANGED <<source, isStreaming, http, controller, requestId, isRequesting, pending,
                  timer, overlapped, broken, staleSave, lastRequest>>
  BY DEF stream, plain, buffer, history
<1>1. ASSUME NEW i \in 1 .. Len(sessions'), NEW j \in 1 .. Len(sessions'[i].messages)
      PROVE  /\ row[i] \in 1 .. Len(sessions) /\ col[i][j] \in 1 .. Len(sessions[row[i]].messages)
             /\ sessions'[i].messages[j] = sessions[row[i]].messages[col[i][j]]
  BY DEF From
<1>2. Distinct'
  <2>1. ASSUME NEW i \in 1 .. Len(sessions'), NEW k \in 1 .. Len(sessions'),
               NEW j \in 1 .. Len(sessions'[i].messages), NEW l \in 1 .. Len(sessions'[k].messages),
               Key(sessions'[i].messages[j]) = Key(sessions'[k].messages[l])
        PROVE  i = k /\ j = l
    <3>1. /\ row[i] \in 1 .. Len(sessions) /\ col[i][j] \in 1 .. Len(sessions[row[i]].messages)
          /\ sessions'[i].messages[j] = sessions[row[i]].messages[col[i][j]]
      BY <1>1
    <3>2. /\ row[k] \in 1 .. Len(sessions) /\ col[k][l] \in 1 .. Len(sessions[row[k]].messages)
          /\ sessions'[k].messages[l] = sessions[row[k]].messages[col[k][l]]
      BY <1>1
    <3>3. Key(sessions[row[i]].messages[col[i][j]]) = Key(sessions[row[k]].messages[col[k][l]])
      BY <2>1, <3>1, <3>2
    <3>4. \A c, d \in 1 .. Len(sessions) :
            \A p \in 1 .. Len(sessions[c].messages), q \in 1 .. Len(sessions[d].messages) :
              Key(sessions[c].messages[p]) = Key(sessions[d].messages[q]) => c = d /\ p = q
      BY DEF IInv, Distinct
    <3>5. row[i] = row[k] /\ col[i][j] = col[k][l]
      <4>1. \A p \in 1 .. Len(sessions[row[i]].messages), q \in 1 .. Len(sessions[row[k]].messages) :
              Key(sessions[row[i]].messages[p]) = Key(sessions[row[k]].messages[q]) =>
                row[i] = row[k] /\ p = q
        BY <3>1, <3>2, <3>4
      <4>. QED BY <3>1, <3>2, <3>3, <4>1
    <3>6. i = k
      BY <3>5 DEF From
    <3>7. col[i][j] = col[i][l]
      BY <3>5, <3>6
    <3>8. l \in 1 .. Len(sessions'[i].messages)
      BY <3>6
    <3>9. j = l
      BY <3>7, <3>8 DEF From
    <3>. QED BY <3>6, <3>9
  <2>2. ASSUME NEW i \in 1 .. Len(sessions'), NEW j \in 1 .. Len(sessions'[i].messages)
        PROVE  sessions'[i].messages[j].req <= lastRequest'
    <3>1. \A c \in 1 .. Len(sessions) : \A p \in 1 .. Len(sessions[c].messages) :
            sessions[c].messages[p].req <= lastRequest
      BY DEF IInv, Distinct
    <3>. QED BY <1>0, <1>1, <3>1
  <2>. QED BY <2>1, <2>2 DEF Distinct, Arranged, Exists
<1>3. OwnText'
  <2>1. ~broken => OwnAt
    BY OwnByPlace DEF IInv
  <2>2. ASSUME ~broken', NEW i \in 1 .. Len(sessions'), NEW j \in 1 .. Len(sessions'[i].messages)
        PROVE  Own(sessions'[i].messages[j], overlapped')
    <3>1. Own(sessions[row[i]].messages[col[i][j]], overlapped)
      BY <1>0, <1>1, <2>1, <2>2 DEF OwnAt
    <3>. QED BY <1>0, <1>1, <3>1
  <2>. QED BY <2>2, OwnByPlaceNext DEF OwnAt
<1>4. UnfinishedRuns'
  <2>. SUFFICES ASSUME ~broken', ~staleSave', NEW i \in 1 .. Len(sessions'),
                       NEW j \in 1 .. Len(sessions'[i].messages),
                       IsPending(sessions'[i].messages[j]),
                       sessions'[i].messages[j].req \notin overlapped'
                PROVE  FALSE
    BY DEF UnfinishedRuns
  <2>1. /\ IsPending(sessions[row[i]].messages[col[i][j]])
        /\ sessions[row[i]].messages[col[i][j]].req \notin overlapped
    BY <1>0, <1>1
  <2>2. lastRequest \in Running /\ lastRequest \notin overlapped
    BY <1>0, <1>1, <2>1 DEF IInv, UnfinishedRuns
  <2>. QED BY <2>2, Quiet
<1>5. WaitsForMessage'
  BY <1>0, Quiet DEF WaitsForMessage, Generating
<1>6. InFlight'
  <2>1. Running' = Running
    BY <1>0 DEF Running
  <2>2. source' = NoSource /\ \A h \in http' : ~h.aborted => h.req \in overlapped'
    BY <1>0, Quiet
  <2>. QED BY <1>0, <2>1, <2>2 DEF IInv, InFlight
<1>7. TypeOK'
  <2>1. view' \in [messages : Seq(Message), generating : BOOLEAN]
    BY <1>0, <1>2, DrawnTyped DEF IInv, TypeOK, Arranged
  <2>. QED BY <1>0, <2>1 DEF IInv, TypeOK, Arranged, EditorTyped
<1>8. AllMessages' \subseteq AllMessages
  <2>. SUFFICES ASSUME NEW n \in AllMessages' PROVE n \in AllMessages
    OBVIOUS
  <2>1. PICK i \in 1 .. Len(sessions') : \E j \in 1 .. Len(sessions'[i].messages) :
          n = sessions'[i].messages[j]
    BY PlacedNext
  <2>2. PICK j \in 1 .. Len(sessions'[i].messages) : n = sessions'[i].messages[j]
    BY <2>1
  <2>3. /\ row[i] \in 1 .. Len(sessions) /\ col[i][j] \in 1 .. Len(sessions[row[i]].messages)
        /\ n = sessions[row[i]].messages[col[i][j]]
    BY <1>1, <2>2
  <2>. QED BY <2>3, AtPlace
<1>. QED BY <1>2, <1>3, <1>4, <1>5, <1>6, <1>7, <1>8, DrawnKeeps DEF IInv

\* A message is deleted.
LEMMA DeleteMessageKeeps ==
  ASSUME IInv, Wired', NEW p \in 1 .. Len(view.messages), HandleDeleteMessage(p)
  PROVE  IInv' /\ AllMessages' \subseteq AllMessages
<1>0. /\ ~view.generating /\ edits < MaxEdits /\ edits' = edits + 1 /\ active' = active
      /\ editing' = editing /\ Drawn
      /\ UNCHANGED <<stream, plain, buffer, isRequesting, lastRequest, history>>
  BY DEF HandleDeleteMessage
<1>. DEFINE others(ms) == {j \in 1 .. Len(ms) : Key(ms[j]) # Key(view.messages[p])}
            g == [i \in 1 .. Len(sessions) |-> Filtered(sessions[i].messages, others(sessions[i].messages))]
<1>1. sessions' = Rewrite(sessions, active, g)
  BY DEF HandleDeleteMessage, updateMessages, Rewrite
<1>2. sessions \in Seq(Conversation) /\ Distinct /\ ViewFollows
  BY DEF IInv, TypeOK
<1>3. PICK a \in 1 .. Len(sessions) :
         /\ sessions[a].id = active /\ Messages = sessions[a].messages
         /\ \A i \in 1 .. Len(sessions) : sessions[i].id = active => i = a
  BY <1>2, OpenConversation
<1>. DEFINE ms == sessions[a].messages
<1>4. /\ Len(sessions) \in Nat /\ ms \in Seq(Message) /\ Len(ms) \in Nat
      /\ p \in 1 .. Len(ms) /\ Key(ms[p]) = Key(view.messages[p])
  <2>1. Len(sessions) \in Nat /\ ms \in Seq(Message) /\ Len(ms) \in Nat
    BY <1>2, ConversationTypes
  <2>2. Len(view.messages) = Len(ms) /\ \A j \in 1 .. Len(ms) : Key(view.messages[j]) = Key(ms[j])
    BY <1>2, <1>3 DEF ViewFollows
  <2>. QED BY <2>1, <2>2
<1>5. others(ms) = 1 .. Len(ms) \ {p}
  <2>1. \A j \in 1 .. Len(ms) : Key(ms[j]) = Key(ms[p]) => j = p
    BY <1>2, <1>4 DEF Distinct
  <2>. QED BY <1>4, <2>1
<1>6. g[a] = Dropped(ms, p)
  BY <1>4, <1>5, FilteredDrops
<1>7. /\ Dropped(ms, p) \in Seq(Message) /\ Len(Dropped(ms, p)) = Len(ms) - 1
      /\ \A j \in 1 .. Len(ms) - 1 : Dropped(ms, p)[j] = ms[IF j < p THEN j ELSE j + 1]
  BY <1>4, DroppedProperties
<1>. HIDE DEF g
<1>8. \A i \in 1 .. Len(sessions) : sessions[i].id = active => g[i] \in Seq(Message)
  BY <1>3, <1>6, <1>7
<1>9. /\ sessions' \in Seq(Conversation) /\ Len(sessions') = Len(sessions)
      /\ \A i \in 1 .. Len(sessions) :
           /\ sessions'[i].id = sessions[i].id
           /\ sessions'[i].messages = IF sessions[i].id = active THEN g[i] ELSE sessions[i].messages
  BY <1>1, <1>2, <1>8, Rewritten
<1>. DEFINE row == [i \in 1 .. Len(sessions) |-> i]
            col == [i \in 1 .. Len(sessions) |->
                      [j \in 1 .. Len(sessions'[i].messages) |-> IF i = a /\ j >= p THEN j + 1 ELSE j]]
<1>10. From(row, col)
  <2>1. ASSUME NEW i \in 1 .. Len(sessions'), NEW j \in 1 .. Len(sessions'[i].messages)
        PROVE  /\ row[i] \in 1 .. Len(sessions)
               /\ col[i][j] \in 1 .. Len(sessions[row[i]].messages)
               /\ sessions'[i].messages[j] = sessions[row[i]].messages[col[i][j]]
               /\ \A k \in 1 .. Len(sessions') : row[i] = row[k] => i = k
               /\ \A l \in 1 .. Len(sessions'[i].messages) : col[i][j] = col[i][l] => j = l
    <3>0. i \in 1 .. Len(sessions) /\ Len(sessions'[i].messages) \in Nat /\ row[i] = i
      BY <1>9, ConversationTypes
    <3>1. /\ col[i][j] = (IF i = a /\ j >= p THEN j + 1 ELSE j)
          /\ \A l \in 1 .. Len(sessions'[i].messages) : col[i][l] = (IF i = a /\ l >= p THEN l + 1 ELSE l)
      BY <3>0
    <3>2. \A l \in 1 .. Len(sessions'[i].messages) : col[i][j] = col[i][l] => j = l
      BY <1>4, <3>0, <3>1
    <3>3. \A k \in 1 .. Len(sessions') : row[i] = row[k] => i = k
      BY <1>9, <3>0
    <3>. HIDE DEF row, col
    <3>4. CASE i = a
      <4>1. sessions'[i].messages = Dropped(ms, p)
        BY <1>3, <1>6, <1>9, <3>0, <3>4
      <4>. QED BY <1>4, <1>7, <3>0, <3>1, <3>2, <3>3, <3>4, <4>1
    <3>5. CASE i # a
      <4>1. sessions'[i].messages = sessions[i].messages
        BY <1>3, <1>9, <3>0, <3>5
      <4>. QED BY <3>0, <3>1, <3>2, <3>3, <3>5, <4>1
    <3>. QED BY <3>4, <3>5
  <2>. QED BY <2>1 DEF From
<1>. HIDE DEF row, col
<1>11. Arranged
  BY <1>0, <1>2, <1>3, <1>9 DEF Arranged, Distinct, IInv, TypeOK
<1>12. EditorTyped
  BY <1>0, PlaygroundAssumption DEF IInv, TypeOK, EditorTyped
<1>. QED BY <1>0, <1>9, <1>10, <1>11, <1>12, QuietKeeps

\* The messages of a conversation are cleared.
LEMMA ClearKeeps ==
  ASSUME IInv, Wired', HandleClearMessages
  PROVE  IInv' /\ AllMessages' \subseteq AllMessages
<1>0. /\ ~view.generating /\ edits' = edits /\ active' = active /\ editing' = NoKey /\ Drawn
      /\ UNCHANGED <<stream, plain, buffer, isRequesting, lastRequest, history>>
  BY DEF HandleClearMessages, bound
<1>. DEFINE g == [i \in 1 .. Len(sessions) |-> << >>]
<1>1. sessions' = Rewrite(sessions, active, g)
  BY DEF HandleClearMessages, updateMessages, Rewrite
<1>2. sessions \in Seq(Conversation) /\ Distinct
  BY DEF IInv, TypeOK
<1>3. \A i \in 1 .. Len(sessions) : g[i] = << >>
  OBVIOUS
<1>. HIDE DEF g
<1>4. /\ sessions' \in Seq(Conversation) /\ Len(sessions') = Len(sessions)
      /\ \A i \in 1 .. Len(sessions) :
           /\ sessions'[i].id = sessions[i].id
           /\ sessions'[i].messages = IF sessions[i].id = active THEN g[i] ELSE sessions[i].messages
  <2>1. \A i \in 1 .. Len(sessions) : sessions[i].id = active => g[i] \in Seq(Message)
    <3>1. << >> \in Seq(Message)
      OBVIOUS
    <3>. QED BY <1>3, <3>1
  <2>. QED BY <1>1, <1>2, <2>1, Rewritten
<1>. DEFINE row == [i \in 1 .. Len(sessions) |-> i]
            col == [i \in 1 .. Len(sessions) |-> [j \in 1 .. Len(sessions'[i].messages) |-> j]]
<1>5. From(row, col)
  <2>1. ASSUME NEW i \in 1 .. Len(sessions'), NEW j \in 1 .. Len(sessions'[i].messages)
        PROVE  /\ row[i] \in 1 .. Len(sessions)
               /\ col[i][j] \in 1 .. Len(sessions[row[i]].messages)
               /\ sessions'[i].messages[j] = sessions[row[i]].messages[col[i][j]]
               /\ \A k \in 1 .. Len(sessions') : row[i] = row[k] => i = k
               /\ \A l \in 1 .. Len(sessions'[i].messages) : col[i][j] = col[i][l] => j = l
    <3>0. i \in 1 .. Len(sessions) /\ row[i] = i
      BY <1>4
    <3>1. sessions'[i].messages = sessions[i].messages
      BY <1>3, <1>4, <3>0
    <3>. QED BY <1>4, <3>0, <3>1
  <2>. QED BY <2>1 DEF From
<1>. HIDE DEF row, col
<1>6. Arranged
  BY <1>0, <1>2, <1>4 DEF Arranged, Distinct, Exists, IInv, TypeOK
<1>7. EditorTyped
  BY <1>0 DEF IInv, TypeOK, EditorTyped, NoKey
<1>. QED BY <1>0, <1>5, <1>6, <1>7, QuietKeeps

\* A new conversation comes first.
LEMMA CreateKeeps ==
  ASSUME IInv, Wired', NEW id \in Ids, CreateNewSession(id)
  PROVE  IInv' /\ AllMessages' \subseteq AllMessages
<1>. DEFINE new == [id |-> id, messages |-> << >>]
<1>0. /\ ~view.generating /\ ~Exists(id) /\ edits' = edits /\ active' = id
      /\ editing' = editing /\ Drawn
      /\ UNCHANGED <<stream, plain, buffer, isRequesting, lastRequest, history>>
  BY DEF CreateNewSession, Fresh, bound
<1>1. sessions' = <<new>> \o sessions
  BY DEF CreateNewSession
<1>2. sessions \in Seq(Conversation) /\ Distinct /\ Len(sessions) \in Nat
  BY DEF IInv, TypeOK
<1>3. new \in Conversation /\ new.id = id /\ new.messages = << >>
  BY DEF Conversation
<1>. HIDE DEF new
<1>4. /\ sessions' \in Seq(Conversation) /\ Len(sessions') = Len(sessions) + 1
      /\ sessions'[1] = new
      /\ \A i \in 2 .. Len(sessions) + 1 : i - 1 \in 1 .. Len(sessions) /\ sessions'[i] = sessions[i - 1]
  BY <1>1, <1>2, <1>3
<1>. DEFINE row == [i \in 1 .. Len(sessions') |-> i - 1]
            col == [i \in 1 .. Len(sessions') |-> [j \in 1 .. Len(sessions'[i].messages) |-> j]]
<1>5. From(row, col)
  <2>1. ASSUME NEW i \in 1 .. Len(sessions'), NEW j \in 1 .. Len(sessions'[i].messages)
        PROVE  /\ row[i] \in 1 .. Len(sessions)
               /\ col[i][j] \in 1 .. Len(sessions[row[i]].messages)
               /\ sessions'[i].messages[j] = sessions[row[i]].messages[col[i][j]]
               /\ \A k \in 1 .. Len(sessions') : row[i] = row[k] => i = k
               /\ \A l \in 1 .. Len(sessions'[i].messages) : col[i][j] = col[i][l] => j = l
    <3>0. i # 1
      BY <1>3, <1>4
    <3>1. i \in 2 .. Len(sessions) + 1 /\ row[i] = i - 1
      BY <1>2, <1>4, <3>0
    <3>2. row[i] \in 1 .. Len(sessions) /\ sessions'[i] = sessions[row[i]]
      BY <1>4, <3>1
    <3>3. \A k \in 1 .. Len(sessions') : row[i] = row[k] => i = k
      BY <1>2, <1>4
    <3>4. \A l \in 1 .. Len(sessions'[i].messages) : col[i][l] = l
      OBVIOUS
    <3>. HIDE DEF row, col
    <3>. QED BY <3>2, <3>3, <3>4
  <2>. QED BY <2>1 DEF From
<1>. HIDE DEF row, col
<1>6. Arranged
  <2>1. \A i \in 1 .. Len(sessions) : sessions[i].id # id
    BY <1>0 DEF Exists
  <2>2. \A i, k \in 1 .. Len(sessions) : sessions[i].id = sessions[k].id => i = k
    BY <1>2 DEF Distinct
  <2>3. \A i \in 2 .. Len(sessions) + 1 : sessions'[i].id # id
    BY <1>4, <2>1
  <2>4. ASSUME NEW i \in 2 .. Len(sessions) + 1, NEW k \in 2 .. Len(sessions) + 1,
               sessions'[i].id = sessions'[k].id
        PROVE  i = k
    <3>1. /\ i - 1 \in 1 .. Len(sessions) /\ k - 1 \in 1 .. Len(sessions)
          /\ sessions[i - 1].id = sessions[k - 1].id
      BY <1>4, <2>4
    <3>2. i - 1 = k - 1
      BY <2>2, <3>1
    <3>. QED BY <1>2, <3>2
  <2>5. \A i \in 1 .. Len(sessions') : i = 1 \/ i \in 2 .. Len(sessions) + 1
    BY <1>2, <1>4
  <2>6. \A i, k \in 1 .. Len(sessions') : sessions'[i].id = sessions'[k].id => i = k
    BY <1>3, <1>4, <2>3, <2>4, <2>5
  <2>7. 1 \in 1 .. Len(sessions') /\ sessions'[1].id = active'
    BY <1>0, <1>2, <1>3, <1>4
  <2>. QED BY <1>0, <1>4, <2>6, <2>7 DEF Arranged
<1>7. EditorTyped
  BY <1>0 DEF IInv, TypeOK, EditorTyped
<1>. QED BY <1>0, <1>5, <1>6, <1>7, QuietKeeps

\* Another conversation is opened.
LEMMA SwitchKeeps ==
  ASSUME IInv, Wired', NEW id \in Ids, SwitchSession(id)
  PROVE  IInv' /\ AllMessages' \subseteq AllMessages
<1>0. /\ ~view.generating /\ Exists(id) /\ edits' = edits /\ active' = id
      /\ editing' = editing /\ Drawn /\ sessions' = sessions
      /\ UNCHANGED <<stream, plain, buffer, isRequesting, lastRequest, history>>
  BY DEF SwitchSession, bound
<1>. DEFINE row == [i \in 1 .. Len(sessions) |-> i]
            col == [i \in 1 .. Len(sessions) |-> [j \in 1 .. Len(sessions[i].messages) |-> j]]
<1>1. From(row, col)
  BY <1>0 DEF From
<1>. HIDE DEF row, col
<1>2. Arranged
  BY <1>0 DEF Arranged, Exists, Distinct, IInv, TypeOK
<1>3. EditorTyped
  BY <1>0 DEF IInv, TypeOK, EditorTyped
<1>. QED BY <1>0, <1>1, <1>2, <1>3, QuietKeeps

\* A conversation is deleted, maybe the last one, maybe the open one.
LEMMA DeleteSessionKeeps ==
  ASSUME IInv, Wired', NEW id \in Ids, NEW fresh \in Ids, DeleteSession(id, fresh)
  PROVE  IInv' /\ AllMessages' \subseteq AllMessages
<1>. DEFINE remaining == Filtered(sessions, {j \in 1 .. Len(sessions) : sessions[j].id # id})
            new == [id |-> fresh, messages |-> << >>]
<1>0. /\ ~view.generating /\ Exists(id) /\ edits' = edits
      /\ active' = (IF active = id THEN sessions'[1].id ELSE active)
      /\ editing' = editing /\ Drawn
      /\ UNCHANGED <<stream, plain, buffer, isRequesting, lastRequest, history>>
  BY DEF DeleteSession, bound
<1>1. \/ remaining # << >> /\ sessions' = remaining
      \/ remaining = << >> /\ sessions' = <<new>>
  BY DEF DeleteSession
<1>2. /\ sessions \in Seq(Conversation) /\ Len(sessions) \in Nat
      /\ \A i, k \in 1 .. Len(sessions) : sessions[i].id = sessions[k].id => i = k
      /\ \E i \in 1 .. Len(sessions) : sessions[i].id = active
      /\ active \in Ids
  BY DEF IInv, TypeOK, Distinct, Exists
<1>3. PICK p \in 1 .. Len(sessions) : sessions[p].id = id
  BY <1>0 DEF Exists
<1>4. {j \in 1 .. Len(sessions) : sessions[j].id # id} = 1 .. Len(sessions) \ {p}
  BY <1>2, <1>3
<1>5. remaining = Dropped(sessions, p)
  BY <1>2, <1>4, FilteredDrops
<1>. HIDE DEF remaining
<1>6. /\ remaining \in Seq(Conversation) /\ Len(remaining) = Len(sessions) - 1
      /\ \A j \in 1 .. Len(sessions) - 1 :
           remaining[j] = sessions[IF j < p THEN j ELSE j + 1]
  BY <1>2, <1>5, DroppedProperties
<1>7. EditorTyped
  BY <1>0 DEF IInv, TypeOK, EditorTyped
<1>8. CASE remaining # << >> /\ sessions' = remaining
  <2>. DEFINE row == [i \in 1 .. Len(sessions') |-> IF i < p THEN i ELSE i + 1]
              col == [i \in 1 .. Len(sessions') |-> [j \in 1 .. Len(sessions'[i].messages) |-> j]]
  <2>1. Len(sessions') = Len(sessions) - 1 /\ Len(sessions') >= 1
    BY <1>2, <1>6, <1>8
  <2>2. ASSUME NEW i \in 1 .. Len(sessions')
        PROVE  /\ row[i] \in 1 .. Len(sessions) /\ sessions'[i] = sessions[row[i]] /\ row[i] # p
               /\ \A k \in 1 .. Len(sessions') : row[i] = row[k] => i = k
    BY <1>2, <1>6, <1>8, <2>1
  <2>3. \A i \in 1 .. Len(sessions') : \A j \in 1 .. Len(sessions'[i].messages) : col[i][j] = j
    OBVIOUS
  <2>4. \A i \in 1 .. Len(sessions) : i # p => \E k \in 1 .. Len(sessions') : row[k] = i
    <3>. TAKE i \in 1 .. Len(sessions)
    <3>. HAVE i # p
    <3>1. CASE i < p
      <4>1. i \in 1 .. Len(sessions') /\ row[i] = i
        BY <1>2, <2>1, <3>1
      <4>. QED BY <4>1
    <3>2. CASE i > p
      <4>1. i - 1 \in 1 .. Len(sessions') /\ row[i - 1] = i
        BY <1>2, <2>1, <3>2
      <4>. QED BY <4>1
    <3>. QED BY <1>2, <3>1, <3>2
  <2>. HIDE DEF row, col
  <2>5. From(row, col)
    <3>1. ASSUME NEW i \in 1 .. Len(sessions'), NEW j \in 1 .. Len(sessions'[i].messages)
          PROVE  /\ row[i] \in 1 .. Len(sessions)
                 /\ col[i][j] \in 1 .. Len(sessions[row[i]].messages)
                 /\ sessions'[i].messages[j] = sessions[row[i]].messages[col[i][j]]
                 /\ \A k \in 1 .. Len(sessions') : row[i] = row[k] => i = k
                 /\ \A l \in 1 .. Len(sessions'[i].messages) : col[i][j] = col[i][l] => j = l
      <4>1. /\ row[i] \in 1 .. Len(sessions) /\ sessions'[i] = sessions[row[i]]
            /\ \A k \in 1 .. Len(sessions') : row[i] = row[k] => i = k
        BY <2>2
      <4>2. col[i][j] = j /\ \A l \in 1 .. Len(sessions'[i].messages) : col[i][l] = l
        BY <2>3
      <4>3. col[i][j] \in 1 .. Len(sessions[row[i]].messages)
        BY <4>1, <4>2
      <4>4. sessions'[i].messages[j] = sessions[row[i]].messages[col[i][j]]
        BY <4>1, <4>2
      <4>5. \A l \in 1 .. Len(sessions'[i].messages) : col[i][j] = col[i][l] => j = l
        BY <4>2
      <4>. QED BY <4>1, <4>3, <4>4, <4>5
    <3>. QED BY <3>1 DEF From
  <2>6. \E i \in 1 .. Len(sessions') : sessions'[i].id = active'
    <3>1. CASE active = id
      BY <1>0, <2>1, <3>1
    <3>2. CASE active # id
      <4>1. PICK x \in 1 .. Len(sessions) : sessions[x].id = active
        BY <1>2
      <4>2. x # p
        BY <1>3, <3>2, <4>1
      <4>3. PICK k \in 1 .. Len(sessions') : row[k] = x
        BY <2>4, <4>2
      <4>. QED BY <1>0, <2>2, <3>2, <4>1, <4>3
    <3>. QED BY <3>1, <3>2
  <2>7. ASSUME NEW i \in 1 .. Len(sessions'), NEW k \in 1 .. Len(sessions'),
               sessions'[i].id = sessions'[k].id
        PROVE  i = k
    <3>1. sessions[row[i]].id = sessions[row[k]].id
      BY <2>2, <2>7
    <3>2. row[i] = row[k]
      BY <1>2, <2>2, <3>1
    <3>. QED BY <2>2, <3>2
  <2>8. active' \in Ids
    <3>1. sessions' \in Seq(Conversation)
      BY <1>6, <1>8
    <3>. QED BY <2>6, <3>1, ConversationTypes
  <2>9. Arranged
    BY <1>6, <1>8, <2>6, <2>7, <2>8 DEF Arranged
  <2>. QED BY <1>0, <1>7, <2>5, <2>9, QuietKeeps
<1>9. CASE remaining = << >> /\ sessions' = <<new>>
  <2>1. new \in Conversation /\ new.id = fresh /\ new.messages = << >>
    BY DEF Conversation
  <2>. HIDE DEF new
  <2>2. Len(sessions) = 1 /\ p = 1
    <3>1. 0 = Len(sessions) - 1
      BY <1>6, <1>9
    <3>2. Len(sessions) \in Nat
      BY <1>2
    <3>3. Len(sessions) = 1
      BY <3>1, <3>2
    <3>. QED BY <3>3
  <2>3. active = id
    BY <1>2, <1>3, <2>2
  <2>4. sessions' \in Seq(Conversation) /\ Len(sessions') = 1 /\ sessions'[1] = new
    BY <1>9, <2>1
  <2>5. active' = fresh
    BY <1>0, <2>1, <2>3, <2>4
  <2>6. Arranged
    BY <2>1, <2>4, <2>5 DEF Arranged
  <2>7. From(<< >>, << >>)
    <3>1. \A i \in 1 .. Len(sessions') : Len(sessions'[i].messages) = 0
      BY <2>1, <2>4
    <3>. QED BY <3>1 DEF From
  <2>. QED BY <1>0, <1>7, <2>6, <2>7, QuietKeeps
<1>. QED BY <1>1, <1>8, <1>9

-----------------------------------------------------------------------------
(* Requests that are sent. *)

\* The open conversation has the messages new.
Replaced(new) ==
  /\ sessions' \in Seq(Conversation) /\ Len(sessions') = Len(sessions)
  /\ \A i \in 1 .. Len(sessions) :
       /\ sessions'[i].id = sessions[i].id
       /\ sessions'[i].messages = IF sessions[i].id = active THEN new ELSE sessions[i].messages

\* The updater that returns new for the open conversation.
LEMMA ReplacedBy ==
  ASSUME TypeOK, NEW new \in Seq(Message),
         sessions' = Rewrite(sessions, active, [i \in 1 .. Len(sessions) |-> new])
  PROVE  Replaced(new)
<1>. DEFINE g == [i \in 1 .. Len(sessions) |-> new]
<1>1. sessions \in Seq(Conversation)
  BY DEF TypeOK
<1>2. \A i \in 1 .. Len(sessions) : g[i] = new
  OBVIOUS
<1>3. sessions' = Rewrite(sessions, active, g)
  OBVIOUS
<1>. HIDE DEF g
<1>4. \A i \in 1 .. Len(sessions) : sessions[i].id = active => g[i] \in Seq(Message)
  BY <1>2
<1>5. LET t == Rewrite(sessions, active, g)
      IN  /\ t \in Seq(Conversation) /\ Len(t) = Len(sessions)
          /\ \A i \in 1 .. Len(sessions) :
               /\ t[i].id = sessions[i].id
               /\ t[i].messages = IF sessions[i].id = active THEN g[i] ELSE sessions[i].messages
  BY <1>1, <1>4, Rewritten
<1>. QED BY <1>2, <1>3, <1>5 DEF Replaced

\* A message of a drawing, or its edited form.
Resembles(m, d) ==
  /\ Key(m) = Key(d) /\ m.status = d.status
  /\ m.has \in {d.has, d.has \cup {UserText}}

\* The messages of a request: some that are drawn, maybe a prompt, and its answer.
Asked(new) ==
  /\ new \in Seq(Message) /\ Len(new) >= 1
  /\ Key(new[Len(new)]) = <<lastRequest + 1, "assistant">>
  /\ new[Len(new)].has \subseteq {UserText} \cup pending
  /\ \A j \in 1 .. Len(new) - 1 :
       \/ j \in 1 .. Len(view.messages) /\ Resembles(new[j], view.messages[j])
       \/ j = Len(view.messages) + 1 /\ new[j] = createUserMessage(lastRequest + 1)

\* A stream that cannot start leaves the same messages, the last with an error.
LEMMA AskedFails ==
  ASSUME TypeOK, NEW ms, Asked(ms)
  PROVE  Asked(withError(flushed(ms))) /\ Ended(withError(flushed(ms)))
<1>. DEFINE new == withError(flushed(ms))
<1>1. ms \in Seq(Message) /\ Len(ms) \in Nat /\ Len(ms) >= 1
  BY DEF Asked
<1>2. Touched(ms, new, pending) /\ Ended(new)
  BY <1>1, ErrorTouches
<1>. HIDE DEF new
<1>3. /\ new \in Seq(Message) /\ Len(new) = Len(ms)
      /\ Len(ms) \in 1 .. Len(ms) /\ \A j \in 1 .. Len(ms) - 1 : j \in 1 .. Len(ms) /\ j # Len(ms)
  BY <1>1, <1>2 DEF Touched
<1>4. /\ Key(new[Len(new)]) = <<lastRequest + 1, "assistant">>
      /\ new[Len(new)].has \subseteq {UserText} \cup pending
  BY <1>2, <1>3 DEF Touched, Asked
<1>5. \A j \in 1 .. Len(ms) - 1 : new[j] = ms[j]
  BY <1>2, <1>3 DEF Touched
<1>6. \A j \in 1 .. Len(new) - 1 :
       \/ j \in 1 .. Len(view.messages) /\ Resembles(new[j], view.messages[j])
       \/ j = Len(view.messages) + 1 /\ new[j] = createUserMessage(lastRequest + 1)
  BY <1>3, <1>5 DEF Asked
<1>7. Asked(new)
  BY <1>1, <1>3, <1>4, <1>6 DEF Asked
<1>. QED BY <1>2, <1>7 DEF new

\* What a request leaves: a source, a failed start, or a plain request.
Streams == /\ source' = [req |-> lastRequest + 1, sid |-> active, live |-> TRUE]
           /\ isStreaming' = TRUE /\ isRequesting' = TRUE
           /\ UNCHANGED <<pending, timer, http, controller, requestId>>
StartFails == /\ source' = NoSource /\ isStreaming' = FALSE /\ isRequesting' = FALSE
              /\ pending' = {} /\ timer' = NoId
              /\ UNCHANGED <<http, controller, requestId>>
Posts == /\ http' = http \cup {[req |-> lastRequest + 1, sid |-> active, aborted |-> FALSE]}
         /\ controller' = lastRequest + 1 /\ requestId' = lastRequest + 1
         /\ isRequesting' = TRUE
         /\ UNCHANGED <<source, isStreaming, pending, timer>>

\* What it makes of the conversation, and of the overlapping requests.
LEMMA Sent ==
  ASSUME TypeOK, NEW ms, Asked(ms), IsPending(ms[Len(ms)]), sendChat(ms)
  PROVE  /\ \E new : /\ Asked(new) /\ Replaced(new)
                     /\ \/ Streams /\ IsPending(new[Len(new)])
                        \/ StartFails /\ Ended(new)
                        \/ Posts /\ IsPending(new[Len(new)])
         /\ lastRequest' = lastRequest + 1
         /\ overlapped' = overlapped \cup Overlap(lastRequest + 1)
         /\ UNCHANGED <<active, edits, broken>> /\ Drawn
<1>1. /\ lastRequest' = lastRequest + 1
      /\ overlapped' = overlapped \cup Overlap(lastRequest + 1)
      /\ UNCHANGED <<active, edits, broken>> /\ Drawn
  BY DEF sendChat
<1>2. ms \in Seq(Message)
  BY DEF Asked
<1>3. CASE sendStreamingChat(lastRequest + 1, ms, TRUE)
  <2>1. Streams /\ sessions' = Rewrite(sessions, active, [i \in 1 .. Len(sessions) |-> ms])
    BY <1>3 DEF sendStreamingChat, Streams, updateMessages, Rewrite, buffer, plain
  <2>2. Replaced(ms)
    BY <1>2, <2>1, ReplacedBy
  <2>. QED BY <1>1, <2>1, <2>2
<1>4. CASE sendStreamingChat(lastRequest + 1, ms, FALSE)
  <2>. DEFINE new == withError(flushed(ms))
  <2>1. StartFails /\ sessions' = Rewrite(sessions, active, [i \in 1 .. Len(sessions) |-> new])
    BY <1>4 DEF sendStreamingChat, StartFails, updateMessages, Rewrite, plain
  <2>2. Asked(new) /\ Ended(new)
    BY AskedFails
  <2>. HIDE DEF new
  <2>3. new \in Seq(Message)
    BY <2>2 DEF Asked
  <2>4. Replaced(new)
    BY <2>1, <2>3, ReplacedBy
  <2>. QED BY <1>1, <2>1, <2>2, <2>4
<1>5. CASE sendNonStreamingChat(lastRequest + 1, ms)
  <2>1. Posts /\ sessions' = Rewrite(sessions, active, [i \in 1 .. Len(sessions) |-> ms])
    BY <1>5 DEF sendNonStreamingChat, Posts, updateMessages, Rewrite, buffer, stream
  <2>2. Replaced(ms)
    BY <1>2, <2>1, ReplacedBy
  <2>. QED BY <1>1, <2>1, <2>2
<1>. QED BY <1>3, <1>4, <1>5 DEF sendChat

\* What is under way has a number, and an overlap takes it all.
LEMMA RunningBounds ==
  ASSUME IInv
  PROVE  /\ Running \subseteq 1 .. lastRequest /\ Running \subseteq Requests
         /\ Overlap(lastRequest + 1) \subseteq Running \cup {lastRequest + 1}
         /\ Running \subseteq Overlap(lastRequest + 1)
         /\ Running # {} => lastRequest + 1 \in Overlap(lastRequest + 1)
<1>1. Running \subseteq 1 .. lastRequest
  BY DEF IInv, Wired, Running, NoSource
<1>2. Running \subseteq Requests
  BY DEF IInv, TypeOK, Running
<1>. QED BY <1>1, <1>2 DEF Overlap

\* A message of the request: one of the open conversation, its prompt or its answer.
LEMMA AskedKeys ==
  ASSUME IInv, NEW new, Asked(new), NEW a \in 1 .. Len(sessions),
         Messages = sessions[a].messages, NEW j \in 1 .. Len(new)
  PROVE  \/ /\ j \in 1 .. Len(sessions[a].messages) /\ j \in 1 .. Len(view.messages)
            /\ Key(new[j]) = Key(sessions[a].messages[j]) /\ Resembles(new[j], view.messages[j])
         \/ j = Len(view.messages) + 1 /\ new[j] = createUserMessage(lastRequest + 1)
         \/ j = Len(new) /\ Key(new[j]) = <<lastRequest + 1, "assistant">>
<1>1. new \in Seq(Message) /\ Len(new) \in Nat
  BY DEF Asked
<1>2. /\ Len(view.messages) = Len(sessions[a].messages)
      /\ \A l \in 1 .. Len(sessions[a].messages) : Key(view.messages[l]) = Key(sessions[a].messages[l])
  BY DEF IInv, ViewFollows
<1>3. CASE j = Len(new)
  BY <1>3 DEF Asked
<1>4. CASE j \in 1 .. Len(new) - 1
  BY <1>2, <1>4 DEF Asked, Resembles
<1>. QED BY <1>1, <1>3, <1>4

\* The prompt and the answer of a request have keys of their own, and the answer is last.
LEMMA SentDistinct ==
  ASSUME IInv, NEW new, Asked(new), Replaced(new), active' = active, lastRequest' = lastRequest + 1
  PROVE  Distinct' /\ Awaited'
<1>0. sessions \in Seq(Conversation) /\ Distinct /\ lastRequest \in Nat
  BY DEF IInv, TypeOK, Wired
<1>1. PICK a \in 1 .. Len(sessions) :
         /\ sessions[a].id = active /\ Messages = sessions[a].messages
         /\ \A i \in 1 .. Len(sessions) : sessions[i].id = active => i = a
  BY <1>0, OpenConversation
<1>2. /\ Len(sessions') = Len(sessions) /\ sessions'[a].messages = new
      /\ \A i \in 1 .. Len(sessions) : sessions'[i].id = sessions[i].id
      /\ \A i \in 1 .. Len(sessions) : i # a => sessions'[i].messages = sessions[i].messages
  BY <1>1 DEF Replaced
<1>. DEFINE r == lastRequest + 1
<1>3. ASSUME NEW i \in 1 .. Len(sessions), NEW j \in 1 .. Len(sessions[i].messages)
      PROVE  sessions[i].messages[j].req \in Nat /\ sessions[i].messages[j].req <= lastRequest
  <2>1. sessions[i].messages[j] \in Message
    BY <1>0, ConversationTypes
  <2>2. sessions[i].messages[j].req \in Nat
    BY <2>1 DEF Message, Requests
  <2>3. sessions[i].messages[j].req <= lastRequest
    BY <1>0 DEF Distinct
  <2>. QED BY <2>2, <2>3
<1>4. ASSUME NEW j \in 1 .. Len(new)
      PROVE  \/ /\ j \in 1 .. Len(sessions[a].messages)
                /\ Key(new[j]) = Key(sessions[a].messages[j])
                /\ new[j].req <= lastRequest
             \/ j = Len(view.messages) + 1 /\ Key(new[j]) = <<r, "user">>
             \/ j = Len(new) /\ Key(new[j]) = <<r, "assistant">>
  <2>1. \/ j \in 1 .. Len(sessions[a].messages) /\ Key(new[j]) = Key(sessions[a].messages[j])
        \/ j = Len(view.messages) + 1 /\ new[j] = createUserMessage(r)
        \/ j = Len(new) /\ Key(new[j]) = <<r, "assistant">>
    BY <1>1, AskedKeys
  <2>2. Key(createUserMessage(r)) = <<r, "user">>
    BY DEF Key, createUserMessage
  <2>3. ASSUME j \in 1 .. Len(sessions[a].messages), Key(new[j]) = Key(sessions[a].messages[j])
        PROVE  new[j].req <= lastRequest
    <3>1. new[j].req = sessions[a].messages[j].req
      BY <2>3 DEF Key
    <3>. QED BY <1>3, <2>3, <3>1
  <2>. QED BY <2>1, <2>2, <2>3
<1>5. ASSUME NEW j \in 1 .. Len(new) PROVE new[j].req <= r
  <2>1. CASE new[j].req <= lastRequest
    <3>1. new[j] \in Message
      BY DEF Asked
    <3>2. new[j].req \in Nat
      BY <3>1 DEF Message, Requests
    <3>. QED BY <1>0, <2>1, <3>2
  <2>2. CASE Key(new[j]) = <<r, "user">> \/ Key(new[j]) = <<r, "assistant">>
    <3>1. new[j].req = r
      BY <2>2 DEF Key
    <3>. QED BY <1>0, <3>1
  <2>. QED BY <1>4, <2>1, <2>2
<1>6. \A i, k \in 1 .. Len(sessions) :
        \A j \in 1 .. Len(sessions[i].messages), l \in 1 .. Len(sessions[k].messages) :
          Key(sessions[i].messages[j]) = Key(sessions[k].messages[l]) => i = k /\ j = l
  BY <1>0 DEF Distinct
<1>7. ASSUME NEW j \in 1 .. Len(new), NEW l \in 1 .. Len(new), Key(new[j]) = Key(new[l])
      PROVE  j = l
  <2>1. CASE new[j].req <= lastRequest
    <3>1. new[l].req = new[j].req
      BY <1>7 DEF Key
    <3>2. new[l].req # r
      BY <1>0, <2>1, <3>1
    <3>3. Key(new[l]) # <<r, "user">> /\ Key(new[l]) # <<r, "assistant">>
      BY <3>2 DEF Key
    <3>4. l \in 1 .. Len(sessions[a].messages) /\ Key(new[l]) = Key(sessions[a].messages[l])
      BY <1>4, <3>3
    <3>5. Key(new[j]) # <<r, "user">> /\ Key(new[j]) # <<r, "assistant">>
      BY <1>7, <3>3
    <3>6. j \in 1 .. Len(sessions[a].messages) /\ Key(new[j]) = Key(sessions[a].messages[j])
      BY <1>4, <3>5
    <3>7. Key(sessions[a].messages[j]) = Key(sessions[a].messages[l])
      BY <1>7, <3>4, <3>6
    <3>. QED BY <1>6, <3>4, <3>6, <3>7
  <2>2. CASE ~(new[j].req <= lastRequest)
    <3>1. new[l].req = new[j].req
      BY <1>7 DEF Key
    <3>2. ~(new[l].req <= lastRequest)
      BY <2>2, <3>1
    <3>3. \/ j = Len(view.messages) + 1 /\ Key(new[j]) = <<r, "user">>
          \/ j = Len(new) /\ Key(new[j]) = <<r, "assistant">>
      BY <1>4, <2>2
    <3>4. \/ l = Len(view.messages) + 1 /\ Key(new[l]) = <<r, "user">>
          \/ l = Len(new) /\ Key(new[l]) = <<r, "assistant">>
      BY <1>4, <3>2
    <3>. QED BY <1>7, <3>3, <3>4
  <2>. QED BY <2>1, <2>2
<1>8. ASSUME NEW j \in 1 .. Len(new), NEW k \in 1 .. Len(sessions), k # a,
             NEW l \in 1 .. Len(sessions[k].messages)
      PROVE  Key(new[j]) # Key(sessions[k].messages[l])
  <2>. SUFFICES ASSUME Key(new[j]) = Key(sessions[k].messages[l]) PROVE FALSE
    OBVIOUS
  <2>1. new[j].req = sessions[k].messages[l].req
    BY DEF Key
  <2>2. new[j].req # r
    <3>1. new[j].req \in Nat /\ new[j].req <= lastRequest
      BY <1>3, <2>1
    <3>. QED BY <1>0, <3>1
  <2>3. Key(new[j]) # <<r, "user">> /\ Key(new[j]) # <<r, "assistant">>
    BY <2>2 DEF Key
  <2>4. j \in 1 .. Len(sessions[a].messages) /\ Key(new[j]) = Key(sessions[a].messages[j])
    BY <1>4, <2>3
  <2>5. Key(sessions[a].messages[j]) = Key(sessions[k].messages[l])
    BY <2>4
  <2>. QED BY <1>6, <1>8, <2>4, <2>5
<1>9. ASSUME NEW i \in 1 .. Len(sessions'), NEW k \in 1 .. Len(sessions'),
             NEW j \in 1 .. Len(sessions'[i].messages), NEW l \in 1 .. Len(sessions'[k].messages),
             Key(sessions'[i].messages[j]) = Key(sessions'[k].messages[l])
      PROVE  i = k /\ j = l
  <2>0. i \in 1 .. Len(sessions) /\ k \in 1 .. Len(sessions)
    BY <1>2
  <2>1. CASE i = a /\ k = a
    BY <1>2, <1>7, <1>9, <2>1
  <2>2. CASE i = a /\ k # a
    BY <1>2, <1>8, <1>9, <2>0, <2>2
  <2>3. CASE i # a /\ k = a
    BY <1>2, <1>8, <1>9, <2>0, <2>3
  <2>4. CASE i # a /\ k # a
    <3>1. sessions'[i].messages = sessions[i].messages /\ sessions'[k].messages = sessions[k].messages
      BY <1>2, <2>0, <2>4
    <3>2. Key(sessions[i].messages[j]) = Key(sessions[k].messages[l])
      BY <1>9, <3>1
    <3>3. j \in 1 .. Len(sessions[i].messages) /\ l \in 1 .. Len(sessions[k].messages)
      BY <3>1
    <3>. QED BY <1>6, <2>0, <3>2, <3>3
  <2>. QED BY <2>1, <2>2, <2>3, <2>4
<1>10. ASSUME NEW i \in 1 .. Len(sessions'), NEW j \in 1 .. Len(sessions'[i].messages)
       PROVE  sessions'[i].messages[j].req <= lastRequest'
  <2>1. CASE i = a
    BY <1>2, <1>5, <2>1
  <2>2. CASE i # a
    <3>1. i \in 1 .. Len(sessions) /\ sessions'[i].messages = sessions[i].messages
      BY <1>2, <2>2
    <3>2. sessions'[i].messages[j].req \in Nat /\ sessions'[i].messages[j].req <= lastRequest
      BY <1>3, <3>1
    <3>. QED BY <1>0, <3>2
  <2>. QED BY <2>1, <2>2
<1>11. \A i, k \in 1 .. Len(sessions') : sessions'[i].id = sessions'[k].id => i = k
  BY <1>0, <1>2 DEF Distinct
<1>12. Distinct'
  BY <1>1, <1>2, <1>9, <1>10, <1>11 DEF Distinct, Exists
<1>13. Messages' = new
  <2>1. PICK b \in 1 .. Len(sessions') : sessions'[b].id = active' /\ Messages' = sessions'[b].messages
    BY <1>12, OpenConversationNext
  <2>2. b = a
    BY <1>1, <1>2, <2>1
  <2>. QED BY <1>2, <2>1, <2>2
<1>14. Awaited'
  <2>1. new # << >> /\ Key(new[Len(new)]) = <<lastRequest + 1, "assistant">>
    BY DEF Asked
  <2>. QED BY <1>13, <2>1 DEF Awaited
<1>. QED BY <1>12, <1>14

\* More requests may overlap, and text of theirs be where it was.
LEMMA OwnMore ==
  ASSUME NEW m, NEW others, NEW more, others \subseteq more, Own(m, others)
  PROVE  Own(m, more)
BY DEF Own

\* Messages of the drawing, an edited one, a prompt and an empty answer: each has its own text.
LEMMA SentOwn ==
  ASSUME IInv, NEW new, Asked(new), Replaced(new), active' = active,
         lastRequest' = lastRequest + 1, overlapped' = overlapped \cup Overlap(lastRequest + 1),
         broken' = broken
  PROVE  OwnText'
<1>. SUFFICES ASSUME ~broken', NEW i \in 1 .. Len(sessions'), NEW j \in 1 .. Len(sessions'[i].messages)
              PROVE  Own(sessions'[i].messages[j], overlapped')
  BY OwnByPlaceNext DEF OwnAt
<1>1. PICK a \in 1 .. Len(sessions) :
         /\ sessions[a].id = active /\ Messages = sessions[a].messages
         /\ \A k \in 1 .. Len(sessions) : sessions[k].id = active => k = a
  BY OpenConversation DEF IInv
<1>2. /\ i \in 1 .. Len(sessions) /\ sessions'[a].messages = new
      /\ i # a => sessions'[i].messages = sessions[i].messages
  BY <1>1 DEF Replaced
<1>3. CASE i # a
  <2>1. OwnAt
    BY OwnByPlace DEF IInv
  <2>2. Own(sessions'[i].messages[j], overlapped)
    BY <1>2, <1>3, <2>1 DEF OwnAt
  <2>. QED BY <2>2, OwnMore
<1>4. CASE i = a
  <2>0. j \in 1 .. Len(new) /\ sessions'[i].messages[j] = new[j]
    BY <1>2, <1>4
  <2>1. \/ j \in 1 .. Len(view.messages) /\ Resembles(new[j], view.messages[j])
        \/ new[j] = createUserMessage(lastRequest + 1)
        \/ j = Len(new)
    BY <1>1, <2>0, AskedKeys
  <2>2. CASE j \in 1 .. Len(view.messages) /\ Resembles(new[j], view.messages[j])
    <3>1. Own(view.messages[j], overlapped)
      BY <2>2 DEF IInv, DrawnOwn
    <3>2. new[j].req = view.messages[j].req /\ new[j].from = view.messages[j].from
      BY <2>2 DEF Resembles, Key
    <3>3. Own(new[j], overlapped)
      BY <2>2, <3>1, <3>2 DEF Own, Resembles
    <3>. QED BY <2>0, <3>3, OwnMore
  <2>3. CASE new[j] = createUserMessage(lastRequest + 1)
    BY <2>0, <2>3 DEF Own, createUserMessage
  <2>4. CASE j = Len(new)
    <3>1. pending \subseteq ({source.req} \ {0}) \cup overlapped
      BY DEF IInv, InFlight
    <3>2. {source.req} \ {0} \subseteq overlapped'
      BY DEF Overlap, Running
    <3>3. new[j].has \subseteq {UserText} \cup overlapped'
      BY <2>4, <3>1, <3>2 DEF Asked
    <3>. QED BY <2>0, <3>3 DEF Own
  <2>. QED BY <2>1, <2>2, <2>3, <2>4
<1>. QED BY <1>3, <1>4

\* Of the messages that are kept, none is unfinished but of requests that overlap.
LEMMA SentUnfinished ==
  ASSUME IInv, NEW new, Asked(new), Replaced(new), active' = active,
         lastRequest' = lastRequest + 1, overlapped' = overlapped \cup Overlap(lastRequest + 1),
         broken' = broken, staleSave => staleSave',
         view.generating => staleSave' \/ view.messages = Messages,
         Ended(new) \/ lastRequest + 1 \in Running'
  PROVE  UnfinishedRuns'
<1>. SUFFICES ASSUME ~broken, ~staleSave', ~staleSave, NEW i \in 1 .. Len(sessions'),
                     NEW j \in 1 .. Len(sessions'[i].messages),
                     IsPending(sessions'[i].messages[j]),
                     sessions'[i].messages[j].req \notin overlapped'
              PROVE  /\ sessions'[i].id = active /\ j = Len(sessions'[i].messages)
                     /\ sessions'[i].messages[j].req = lastRequest + 1
                     /\ lastRequest + 1 \in Running'
  BY DEF UnfinishedRuns
<1>0. \A x \in 1 .. Len(sessions) : \A y \in 1 .. Len(sessions[x].messages) :
        (IsPending(sessions[x].messages[y]) /\ sessions[x].messages[y].req \notin overlapped) =>
           /\ sessions[x].id = active
           /\ sessions[x].messages[y].req = lastRequest /\ lastRequest \in Running
  BY DEF IInv, UnfinishedRuns
<1>1. PICK a \in 1 .. Len(sessions) :
         /\ sessions[a].id = active /\ Messages = sessions[a].messages
         /\ \A k \in 1 .. Len(sessions) : sessions[k].id = active => k = a
  BY OpenConversation DEF IInv
<1>2. /\ i \in 1 .. Len(sessions) /\ sessions'[a].messages = new
      /\ sessions'[i].id = sessions[i].id
      /\ i # a => sessions'[i].messages = sessions[i].messages
  BY <1>1 DEF Replaced
<1>3. i = a
  <2>1. SUFFICES ASSUME i # a PROVE FALSE
    OBVIOUS
  <2>2. sessions'[i].messages = sessions[i].messages
    BY <1>2, <2>1
  <2>3. sessions[i].id = active
    BY <1>0, <1>2, <2>2
  <2>. QED BY <1>1, <1>2, <2>1, <2>3
<1>4. j \in 1 .. Len(new) /\ sessions'[i].messages[j] = new[j]
  BY <1>2, <1>3
<1>5. \/ j \in 1 .. Len(view.messages) /\ Resembles(new[j], view.messages[j])
      \/ new[j] = createUserMessage(lastRequest + 1)
      \/ j = Len(new)
  BY <1>1, <1>4, AskedKeys
<1>6. CASE j \in 1 .. Len(view.messages) /\ Resembles(new[j], view.messages[j])
  <2>1. IsPending(view.messages[j]) /\ view.messages[j].req = new[j].req
    BY <1>4, <1>6 DEF IsPending, Resembles, Key
  <2>2. view.messages[j].req \notin overlapped /\ view.messages[j].req \notin Overlap(lastRequest + 1)
    BY <1>4, <2>1
  <2>3. view.generating
    BY <1>6, <2>1, <2>2 DEF IInv, DrawnFinished
  <2>4. view.messages = sessions[a].messages
    BY <1>1, <2>3
  <2>5. view.messages[j].req = lastRequest /\ lastRequest \in Running
    BY <1>0, <1>6, <2>1, <2>2, <2>4
  <2>. QED BY <2>2, <2>5, RunningBounds
<1>7. CASE new[j] = createUserMessage(lastRequest + 1)
  BY <1>4, <1>7 DEF IsPending, createUserMessage
<1>8. CASE j = Len(new)
  <2>1. new[j].req = lastRequest + 1 /\ new # << >>
    BY <1>8 DEF Asked, Key
  <2>2. ~Ended(new)
    BY <1>4, <1>8, <2>1 DEF Ended
  <2>. QED BY <1>1, <1>2, <1>3, <1>4, <1>8, <2>1, <2>2
<1>. QED BY <1>5, <1>6, <1>7, <1>8

\* A request that is sent, from any of the three buttons.
LEMMA SendKeeps ==
  ASSUME IInv, Wired', NEW ms, Asked(ms), IsPending(ms[Len(ms)]), sendChat(ms),
         lastRequest < MaxRequests,
         editing' \in ((Requests \cup {0}) \X {"user", "assistant", "none"}),
         staleSave' \in BOOLEAN, staleSave => staleSave',
         view.generating => staleSave' \/ view.messages = Messages
  PROVE  IInv'
<1>. DEFINE r == lastRequest + 1
<1>0. TypeOK /\ Wired /\ InFlight
  BY DEF IInv
<1>1. /\ \E new : /\ Asked(new) /\ Replaced(new)
                  /\ \/ Streams /\ IsPending(new[Len(new)])
                     \/ StartFails /\ Ended(new)
                     \/ Posts /\ IsPending(new[Len(new)])
      /\ lastRequest' = r /\ overlapped' = overlapped \cup Overlap(r)
      /\ UNCHANGED <<active, edits, broken>> /\ Drawn
  BY <1>0, Sent
<1>2. PICK new : /\ Asked(new) /\ Replaced(new)
                 /\ \/ Streams /\ IsPending(new[Len(new)])
                    \/ StartFails /\ Ended(new)
                    \/ Posts /\ IsPending(new[Len(new)])
  BY <1>1
<1>3. Distinct' /\ Awaited'
  BY <1>1, <1>2, SentDistinct
<1>4. OwnText'
  BY <1>1, <1>2, SentOwn
<1>5. r \in Requests /\ r # 0 /\ lastRequest \in Nat
  BY <1>0, PlaygroundAssumption DEF TypeOK, Requests
<1>6. /\ Running \subseteq 1 .. lastRequest /\ Running \subseteq Requests
      /\ Overlap(r) \subseteq Running \cup {r}
      /\ Running \subseteq Overlap(r)
      /\ Running # {} => r \in Overlap(r)
  BY RunningBounds
<1>7. /\ Streams => Running' = {r} \cup {h.req : h \in {x \in http : ~x.aborted}}
      /\ Posts => Running' = Running \cup {r}
      /\ StartFails => Running' \subseteq Running
  <2>1. Streams => Running' = {r} \cup {h.req : h \in {x \in http : ~x.aborted}}
    BY <1>5 DEF Streams, Running
  <2>2. StartFails => Running' \subseteq Running
    BY DEF StartFails, Running, NoSource
  <2>3. ASSUME Posts PROVE Running' = Running \cup {r}
    <3>. DEFINE h0 == [req |-> r, sid |-> active, aborted |-> FALSE]
    <3>1. http' = http \cup {h0} /\ source' = source
      BY <2>3 DEF Posts
    <3>2. h0.req = r /\ h0.aborted = FALSE
      OBVIOUS
    <3>. HIDE DEF h0
    <3>3. {x \in http' : ~x.aborted} = {x \in http : ~x.aborted} \cup {h0}
      BY <3>1, <3>2
    <3>4. {h.req : h \in {x \in http' : ~x.aborted}} = {h.req : h \in {x \in http : ~x.aborted}} \cup {r}
      BY <3>2, <3>3
    <3>. QED BY <3>1, <3>4 DEF Running
  <2>. QED BY <2>1, <2>2, <2>3
<1>8. Running' \subseteq Running \cup {r} /\ (Streams \/ Posts => r \in Running')
  BY <1>2, <1>7 DEF Running
<1>9. UnfinishedRuns'
  <2>1. Ended(new) \/ r \in Running'
    BY <1>2, <1>8
  <2>. QED BY <1>1, <1>2, <2>1, SentUnfinished
<1>10. WaitsForMessage'
  <2>1. CASE StartFails
    BY <2>1 DEF StartFails, WaitsForMessage, Generating
  <2>2. CASE IsPending(new[Len(new)])
    <3>1. PICK b \in 1 .. Len(sessions') : sessions'[b].id = active' /\ Messages' = sessions'[b].messages
      BY <1>3, OpenConversationNext
    <3>2. Messages' = new
      BY <1>1, <1>2, <3>1 DEF Replaced
    <3>3. new # << >>
      BY <1>2 DEF Asked
    <3>. QED BY <2>2, <3>2, <3>3 DEF WaitsForMessage
  <2>. QED BY <1>2, <2>1, <2>2
<1>11. TypeOK'
  <2>0. /\ source' \in [req : Requests \cup {0}, sid : Ids \cup {NoId}, live : BOOLEAN]
        /\ http' \subseteq [req : Requests, sid : Ids, aborted : BOOLEAN]
        /\ controller' \in Requests \cup {0} /\ requestId' \in Requests \cup {0}
        /\ pending' \subseteq Requests /\ timer' \in Ids \cup {NoId}
        /\ isStreaming' \in BOOLEAN /\ isRequesting' \in BOOLEAN
    <3>0. active \in Ids
      BY <1>0 DEF TypeOK
    <3>1. CASE Streams
      BY <1>0, <1>5, <3>0, <3>1 DEF TypeOK, Streams
    <3>2. CASE StartFails
      BY <1>0, <3>2 DEF TypeOK, StartFails, NoSource
    <3>3. CASE Posts
      <4>1. [req |-> r, sid |-> active, aborted |-> FALSE] \in [req : Requests, sid : Ids, aborted : BOOLEAN]
        BY <1>5, <3>0
      <4>. QED BY <1>0, <1>5, <3>3, <4>1 DEF TypeOK, Posts
    <3>. QED BY <1>2, <3>1, <3>2, <3>3
  <2>1. view' \in [messages : Seq(Message), generating : BOOLEAN]
    BY <1>1, <1>2, <1>3, <2>0, DrawnTyped DEF Replaced
  <2>2. sessions' \in Seq(Conversation)
    BY <1>2 DEF Replaced
  <2>3. overlapped' \subseteq Requests
    BY <1>0, <1>1, <1>5, <1>6 DEF TypeOK
  <2>. QED BY <1>0, <1>1, <1>5, <2>0, <2>1, <2>2, <2>3 DEF TypeOK
<1>12. InFlight'
  <2>1. Running' \subseteq overlapped' \cup {lastRequest'}
    BY <1>1, <1>6, <1>8
  <2>2. lastRequest' \notin overlapped' => Running' \subseteq {lastRequest'}
    BY <1>1, <1>6, <1>8
  <2>3. overlapped' \subseteq 1 .. lastRequest'
    <3>1. overlapped \subseteq 1 .. lastRequest
      BY <1>0 DEF InFlight
    <3>2. \A x \in overlapped' : x \in 1 .. lastRequest \/ x = r
      BY <1>1, <1>6, <3>1
    <3>. QED BY <1>1, <1>5, <3>2
  <2>4. source' # NoSource => source'.sid = active' /\ Awaited'
    <3>1. source # NoSource => source.sid = active
      BY <1>0 DEF InFlight
    <3>. QED BY <1>1, <1>2, <1>3, <3>1 DEF Streams, StartFails, Posts
  <2>5. ASSUME NEW h \in http', ~h.aborted, h.req \notin overlapped'
        PROVE  h.sid = active' /\ Awaited'
    <3>1. CASE h \in http
      <4>1. h.req \in Running
        BY <2>5, <3>1 DEF Running
      <4>. QED BY <1>1, <1>6, <2>5, <4>1
    <3>2. CASE h = [req |-> r, sid |-> active, aborted |-> FALSE]
      BY <1>1, <1>3, <3>2
    <3>. QED BY <1>2, <3>1, <3>2 DEF Streams, StartFails, Posts
  <2>6. (isRequesting' /\ ~isStreaming') => \E h \in http' : ~h.aborted
    <3>1. CASE Streams \/ StartFails
      BY <3>1 DEF Streams, StartFails
    <3>2. CASE Posts
      <4>. DEFINE h0 == [req |-> r, sid |-> active, aborted |-> FALSE]
      <4>1. h0 \in http' /\ ~h0.aborted
        BY <3>2 DEF Posts
      <4>. QED BY <4>1
    <3>. QED BY <1>2, <3>1, <3>2
  <2>7. ASSUME ~broken'
        PROVE  /\ pending' \subseteq ({source'.req} \ {0}) \cup overlapped'
               /\ pending' # {} => source' # NoSource
               /\ timer' # NoId => source' # NoSource /\ timer' = active'
    <3>0. /\ pending \subseteq ({source.req} \ {0}) \cup overlapped
          /\ pending # {} => source # NoSource
          /\ timer # NoId => source # NoSource /\ timer = active
      BY <1>0, <1>1, <2>7 DEF InFlight
    <3>1. ({source.req} \ {0}) \subseteq Overlap(r)
      BY <1>6 DEF Running
    <3>2. CASE Streams
      <4>1. source' # NoSource
        BY <1>5, <3>2 DEF Streams, NoSource
      <4>2. pending' = pending /\ timer' = timer
        BY <3>2 DEF Streams
      <4>. QED BY <1>1, <3>0, <3>1, <4>1, <4>2
    <3>3. CASE StartFails
      BY <3>3 DEF StartFails
    <3>4. CASE Posts
      <4>1. pending' = pending /\ timer' = timer /\ source' = source
        BY <3>4 DEF Posts
      <4>. QED BY <1>1, <3>0, <3>1, <4>1
    <3>. QED BY <1>2, <3>2, <3>3, <3>4
  <2>. QED BY <2>1, <2>2, <2>3, <2>4, <2>5, <2>6, <2>7 DEF InFlight
<1>. QED BY <1>1, <1>3, <1>4, <1>9, <1>10, <1>11, <1>12, DrawnKeeps DEF IInv

\* The messages a button sends.
LEMMA LoadingMessage ==
  ASSUME NEW r \in Requests
  PROVE  LET m == createLoadingAssistantMessage(r)
         IN  /\ m \in Message /\ Key(m) = <<r, "assistant">> /\ m.has = {} /\ IsPending(m)
             /\ createUserMessage(r) \in Message
BY DEF createLoadingAssistantMessage, createUserMessage, Message, Key, IsPending

\* The send button sends the drawing, a prompt and an answer.
LEMMA SendMessageAsks ==
  ASSUME IInv, HandleSendMessage
  PROVE  /\ \E ms : Asked(ms) /\ IsPending(ms[Len(ms)]) /\ sendChat(ms)
         /\ lastRequest < MaxRequests
<1>. DEFINE r == lastRequest + 1
            last == createLoadingAssistantMessage(r)
            prompt == createUserMessage(r)
            ms == view.messages \o <<prompt, last>>
<1>0. ~view.generating /\ lastRequest < MaxRequests /\ sendChat(ms) /\ editing' = editing
      /\ staleSave' = staleSave
  BY DEF HandleSendMessage
<1>1. r \in Requests /\ view.messages \in Seq(Message) /\ Len(view.messages) \in Nat
  BY <1>0, PlaygroundAssumption DEF IInv, TypeOK, Requests
<1>2. /\ last \in Message /\ Key(last) = <<r, "assistant">> /\ last.has = {} /\ IsPending(last)
      /\ prompt \in Message
  BY <1>1, LoadingMessage
<1>. HIDE DEF last, r
<1>3. prompt = createUserMessage(r)
  OBVIOUS
<1>. HIDE DEF prompt
<1>4. /\ ms \in Seq(Message) /\ Len(ms) = Len(view.messages) + 2 /\ ms[Len(ms)] = last
      /\ ms[Len(view.messages) + 1] = prompt
      /\ \A j \in 1 .. Len(view.messages) : ms[j] = view.messages[j]
  BY <1>1, <1>2
<1>. HIDE DEF ms
<1>5. \A j \in 1 .. Len(ms) - 1 : j \in 1 .. Len(view.messages) \/ j = Len(view.messages) + 1
  BY <1>1, <1>4
<1>6. Asked(ms)
  BY <1>1, <1>2, <1>3, <1>4, <1>5 DEF Asked, Resembles, r
<1>7. IsPending(ms[Len(ms)])
  BY <1>2, <1>4
<1>. QED BY <1>0, <1>6, <1>7

\* The send button.
LEMMA SendMessageKeeps ==
  ASSUME IInv, Wired', HandleSendMessage
  PROVE  IInv'
<1>1. PICK ms : Asked(ms) /\ IsPending(ms[Len(ms)]) /\ sendChat(ms)
  BY SendMessageAsks
<1>2. lastRequest < MaxRequests
  BY SendMessageAsks
<1>3. ~view.generating /\ editing' = editing /\ staleSave' = staleSave
  BY DEF HandleSendMessage
<1>. QED BY <1>1, <1>2, <1>3, SendKeeps DEF IInv, TypeOK

\* The regenerate button sends a beginning of the drawing and an answer.
LEMMA RegenerateAsks ==
  ASSUME IInv, NEW i \in 1 .. Len(view.messages), HandleRegenerateMessage(i)
  PROVE  /\ \E ms : Asked(ms) /\ IsPending(ms[Len(ms)]) /\ sendChat(ms)
         /\ lastRequest < MaxRequests
<1>. DEFINE r == lastRequest + 1
            last == createLoadingAssistantMessage(r)
            n == IF view.messages[i].from = "user" THEN i ELSE i - 1
            ms == Append(SubSeq(view.messages, 1, n), last)
<1>0. ~view.generating /\ lastRequest < MaxRequests /\ sendChat(ms) /\ editing' = editing
      /\ staleSave' = staleSave
  BY DEF HandleRegenerateMessage
<1>1. r \in Requests /\ view.messages \in Seq(Message) /\ Len(view.messages) \in Nat
  BY <1>0, PlaygroundAssumption DEF IInv, TypeOK, Requests
<1>2. /\ last \in Message /\ Key(last) = <<r, "assistant">> /\ last.has = {} /\ IsPending(last)
  BY <1>1, LoadingMessage
<1>3. n \in 0 .. Len(view.messages)
  BY <1>1
<1>. HIDE DEF last, r, n
<1>4. /\ ms \in Seq(Message) /\ Len(ms) = n + 1 /\ ms[Len(ms)] = last
      /\ \A j \in 1 .. n : ms[j] = view.messages[j]
  BY <1>1, <1>2, <1>3
<1>. HIDE DEF ms
<1>5. \A j \in 1 .. Len(ms) - 1 : j \in 1 .. Len(view.messages) /\ ms[j] = view.messages[j]
  BY <1>1, <1>3, <1>4
<1>6. Asked(ms)
  BY <1>1, <1>2, <1>3, <1>4, <1>5 DEF Asked, Resembles, r
<1>7. IsPending(ms[Len(ms)])
  BY <1>2, <1>4
<1>. QED BY <1>0, <1>6, <1>7

\* The regenerate button.
LEMMA RegenerateKeeps ==
  ASSUME IInv, Wired', NEW i \in 1 .. Len(view.messages), HandleRegenerateMessage(i)
  PROVE  IInv'
<1>1. PICK ms : Asked(ms) /\ IsPending(ms[Len(ms)]) /\ sendChat(ms)
  BY RegenerateAsks
<1>2. lastRequest < MaxRequests
  BY RegenerateAsks
<1>3. ~view.generating /\ editing' = editing /\ staleSave' = staleSave
  BY DEF HandleRegenerateMessage
<1>. QED BY <1>1, <1>2, <1>3, SendKeeps DEF IInv, TypeOK

\* The drawing with one edited message.
LEMMA Edited ==
  ASSUME NEW ms \in Seq(Message), NEW i \in 1 .. Len(ms)
  PROVE  LET updated == [ms EXCEPT ![i].has = @ \cup {UserText}]
         IN  /\ updated \in Seq(Message) /\ Len(updated) = Len(ms)
             /\ \A j \in 1 .. Len(ms) : Resembles(updated[j], ms[j])
<1>. DEFINE updated == [ms EXCEPT ![i].has = @ \cup {UserText}]
            m == [ms[i] EXCEPT !.has = @ \cup {UserText}]
<1>1. Len(ms) \in Nat /\ ms[i] \in Message /\ DOMAIN ms = 1 .. Len(ms)
  OBVIOUS
<1>2. m \in Message /\ Resembles(m, ms[i])
  BY <1>1 DEF Message, Resembles, Key, UserText
<1>3. updated = [ms EXCEPT ![i] = m]
  BY <1>1
<1>. HIDE DEF updated, m
<1>4. /\ updated \in Seq(Message) /\ Len(updated) = Len(ms)
      /\ \A j \in 1 .. Len(ms) : updated[j] = IF j = i THEN m ELSE ms[j]
  BY <1>1, <1>2, <1>3
<1>5. \A j \in 1 .. Len(ms) : Resembles(updated[j], ms[j])
  BY <1>2, <1>4 DEF Resembles
<1>. QED BY <1>4, <1>5 DEF updated

\* An edit that is submitted sends a beginning of the edited drawing and an answer.
LEMMA SubmitAsks ==
  ASSUME IInv, NEW i \in 1 .. Len(view.messages), ApplyEdit(i, TRUE)
  PROVE  /\ \E ms : Asked(ms) /\ IsPending(ms[Len(ms)]) /\ sendChat(ms)
         /\ lastRequest < MaxRequests
<1>. DEFINE r == lastRequest + 1
            last == createLoadingAssistantMessage(r)
            updated == [view.messages EXCEPT ![i].has = @ \cup {UserText}]
            ms == Append(SubSeq(updated, 1, i), last)
<1>0. /\ lastRequest < MaxRequests /\ sendChat(ms) /\ editing' = NoKey
      /\ staleSave' = (staleSave \/ view.messages # Messages)
  BY DEF ApplyEdit
<1>1. r \in Requests /\ view.messages \in Seq(Message) /\ Len(view.messages) \in Nat
  BY <1>0, PlaygroundAssumption DEF IInv, TypeOK, Requests
<1>2. /\ last \in Message /\ Key(last) = <<r, "assistant">> /\ last.has = {} /\ IsPending(last)
  BY <1>1, LoadingMessage
<1>3. /\ updated \in Seq(Message) /\ Len(updated) = Len(view.messages)
      /\ \A j \in 1 .. Len(view.messages) : Resembles(updated[j], view.messages[j])
  BY <1>1, Edited
<1>. HIDE DEF last, r, updated
<1>4. /\ ms \in Seq(Message) /\ Len(ms) = i + 1 /\ ms[Len(ms)] = last
      /\ \A j \in 1 .. i : ms[j] = updated[j]
  BY <1>1, <1>2, <1>3
<1>. HIDE DEF ms
<1>5. \A j \in 1 .. Len(ms) - 1 : j \in 1 .. Len(view.messages) /\ Resembles(ms[j], view.messages[j])
  BY <1>1, <1>3, <1>4
<1>6. Asked(ms)
  BY <1>1, <1>2, <1>4, <1>5 DEF Asked, r
<1>7. IsPending(ms[Len(ms)])
  BY <1>2, <1>4
<1>. QED BY <1>0, <1>6, <1>7

\* An edit that is submitted, maybe while an answer arrives.
LEMMA SubmitKeeps ==
  ASSUME IInv, Wired', NEW i \in 1 .. Len(view.messages), ApplyEdit(i, TRUE)
  PROVE  IInv'
<1>1. PICK ms : Asked(ms) /\ IsPending(ms[Len(ms)]) /\ sendChat(ms)
  BY SubmitAsks
<1>2. lastRequest < MaxRequests
  BY SubmitAsks
<1>3. /\ editing' \in ((Requests \cup {0}) \X {"user", "assistant", "none"})
      /\ staleSave' \in BOOLEAN /\ (staleSave => staleSave')
      /\ view.generating => staleSave' \/ view.messages = Messages
  BY DEF ApplyEdit, NoKey
<1>. QED BY <1>1, <1>2, <1>3, SendKeeps

\* An edit that is saved: the drawing replaces the messages.
LEMMA SaveReplaces ==
  ASSUME IInv, NEW i \in 1 .. Len(view.messages), ApplyEdit(i, FALSE)
  PROVE  /\ \E new : Replaced(new) /\ new \in Seq(Message) /\ Len(new) = Len(view.messages)
                       /\ \A j \in 1 .. Len(view.messages) : Resembles(new[j], view.messages[j])
         /\ editing' = NoKey /\ staleSave' = (staleSave \/ view.messages # Messages) /\ Drawn
         /\ UNCHANGED <<active, source, isStreaming, http, controller, requestId, pending, timer,
                        isRequesting, lastRequest, edits, overlapped, broken>>
<1>. DEFINE updated == [view.messages EXCEPT ![i].has = @ \cup {UserText}]
<1>1. /\ editing' = NoKey /\ staleSave' = (staleSave \/ view.messages # Messages) /\ Drawn
      /\ UNCHANGED <<active, source, isStreaming, http, controller, requestId, pending, timer,
                     isRequesting, lastRequest, edits, overlapped, broken>>
  BY DEF ApplyEdit, stream, plain, buffer, bound
<1>2. sessions' = Rewrite(sessions, active, [k \in 1 .. Len(sessions) |-> updated])
  BY DEF ApplyEdit, updateMessages, Rewrite
<1>3. /\ updated \in Seq(Message) /\ Len(updated) = Len(view.messages)
      /\ \A j \in 1 .. Len(view.messages) : Resembles(updated[j], view.messages[j])
  <2>1. view.messages \in Seq(Message)
    BY DEF IInv, TypeOK
  <2>. QED BY <2>1, Edited
<1>. HIDE DEF updated
<1>4. Replaced(updated)
  BY <1>2, <1>3, ReplacedBy DEF IInv
<1>. QED BY <1>1, <1>3, <1>4

\* An edit that is saved, maybe while an answer arrives.
LEMMA SaveKeeps ==
  ASSUME IInv, Wired', NEW e \in 1 .. Len(view.messages), ApplyEdit(e, FALSE)
  PROVE  IInv'
<1>0. TypeOK /\ Distinct /\ ViewFollows /\ sessions \in Seq(Conversation)
  BY DEF IInv, TypeOK
<1>1. /\ editing' = NoKey /\ staleSave' = (staleSave \/ view.messages # Messages) /\ Drawn
      /\ UNCHANGED <<active, source, isStreaming, http, controller, requestId, pending, timer,
                     isRequesting, lastRequest, edits, overlapped, broken>>
  BY SaveReplaces
<1>2. PICK new : Replaced(new) /\ new \in Seq(Message) /\ Len(new) = Len(view.messages)
                   /\ \A j \in 1 .. Len(view.messages) : Resembles(new[j], view.messages[j])
  BY SaveReplaces
<1>3. PICK a \in 1 .. Len(sessions) :
         /\ sessions[a].id = active /\ Messages = sessions[a].messages
         /\ \A k \in 1 .. Len(sessions) : sessions[k].id = active => k = a
  BY <1>0, OpenConversation
<1>4. /\ Len(sessions') = Len(sessions) /\ sessions'[a].messages = new
      /\ \A i \in 1 .. Len(sessions) : sessions'[i].id = sessions[i].id
      /\ \A i \in 1 .. Len(sessions) : i # a => sessions'[i].messages = sessions[i].messages
  BY <1>2, <1>3 DEF Replaced
<1>5. /\ Len(new) = Len(sessions[a].messages)
      /\ \A j \in 1 .. Len(sessions[a].messages) :
           Key(new[j]) = Key(sessions[a].messages[j]) /\ Resembles(new[j], view.messages[j])
  BY <1>0, <1>2, <1>3 DEF ViewFollows, Resembles
<1>6. KeysKept
  <2>1. sessions' \in Seq(Conversation)
    BY <1>2 DEF Replaced
  <2>. QED BY <1>4, <1>5, <2>1 DEF KeysKept
<1>7. /\ Distinct' /\ (Awaited <=> Awaited')
      /\ \E b \in 1 .. Len(sessions) :
              /\ sessions[b].id = active /\ Messages = sessions[b].messages
              /\ sessions'[b].id = active /\ Messages' = sessions'[b].messages
  BY <1>0, <1>1, <1>6, KeysStay
<1>8. Messages' = new
  BY <1>3, <1>4, <1>7
<1>9. OwnText'
  <2>. SUFFICES ASSUME ~broken', NEW i \in 1 .. Len(sessions'), NEW j \in 1 .. Len(sessions'[i].messages)
                PROVE  Own(sessions'[i].messages[j], overlapped')
    BY OwnByPlaceNext DEF OwnAt
  <2>1. CASE i = a
    <3>1. j \in 1 .. Len(view.messages) /\ sessions'[i].messages[j] = new[j]
      BY <1>2, <1>4, <2>1
    <3>2. Own(view.messages[j], overlapped)
      BY <1>1, <3>1 DEF IInv, DrawnOwn
    <3>3. Resembles(new[j], view.messages[j])
      BY <1>2, <3>1
    <3>4. new[j].req = view.messages[j].req /\ new[j].from = view.messages[j].from
      BY <3>3 DEF Resembles, Key
    <3>. QED BY <1>1, <3>1, <3>2, <3>3, <3>4 DEF Own, Resembles
  <2>2. CASE i # a
    <3>1. OwnAt
      BY <1>1, OwnByPlace DEF IInv
    <3>. QED BY <1>1, <1>4, <2>2, <3>1 DEF OwnAt
  <2>. QED BY <2>1, <2>2
<1>10. Running' = Running /\ (Generating' <=> Generating)
  BY <1>1 DEF Running, Generating
<1>11. ASSUME ~staleSave', NEW j \in 1 .. Len(new)
       PROVE  /\ new[j].req = sessions[a].messages[j].req
              /\ IsPending(new[j]) <=> IsPending(sessions[a].messages[j])
  <2>1. view.messages = sessions[a].messages
    BY <1>1, <1>3, <1>11
  <2>2. Key(new[j]) = Key(sessions[a].messages[j]) /\ new[j].status = sessions[a].messages[j].status
    BY <1>5, <2>1 DEF Resembles
  <2>. QED BY <2>2 DEF Key, IsPending
<1>12. UnfinishedRuns'
  <2>. SUFFICES ASSUME ~broken', ~staleSave', NEW i \in 1 .. Len(sessions'),
                       NEW j \in 1 .. Len(sessions'[i].messages),
                       IsPending(sessions'[i].messages[j]),
                       sessions'[i].messages[j].req \notin overlapped'
                PROVE  /\ sessions'[i].id = active' /\ j = Len(sessions'[i].messages)
                       /\ sessions'[i].messages[j].req = lastRequest' /\ lastRequest' \in Running'
    BY DEF UnfinishedRuns
  <2>1. /\ i \in 1 .. Len(sessions) /\ j \in 1 .. Len(sessions[i].messages)
        /\ sessions'[i].messages[j].req = sessions[i].messages[j].req
        /\ IsPending(sessions[i].messages[j])
        /\ Len(sessions'[i].messages) = Len(sessions[i].messages)
    <3>1. CASE i = a
      BY <1>4, <1>5, <1>11, <3>1
    <3>2. CASE i # a
      BY <1>4, <3>2
    <3>. QED BY <3>1, <3>2
  <2>2. ~broken /\ ~staleSave /\ sessions[i].messages[j].req \notin overlapped
    BY <1>1, <2>1
  <2>3. /\ sessions[i].id = active /\ j = Len(sessions[i].messages)
        /\ sessions[i].messages[j].req = lastRequest /\ lastRequest \in Running
    BY <2>1, <2>2 DEF IInv, UnfinishedRuns
  <2>. QED BY <1>1, <1>4, <1>10, <2>1, <2>3
<1>13. WaitsForMessage'
  <2>. SUFFICES ASSUME ~broken', ~staleSave', overlapped' = {}, Generating'
                PROVE  Messages' # << >> /\ IsPending(Messages'[Len(Messages')])
    BY DEF WaitsForMessage
  <2>1. sessions[a].messages # << >> /\ IsPending(sessions[a].messages[Len(sessions[a].messages)])
    BY <1>1, <1>3, <1>10 DEF IInv, WaitsForMessage
  <2>2. Len(sessions[a].messages) \in Nat /\ sessions[a].messages \in Seq(Message)
    BY <1>0, ConversationTypes
  <2>3. Len(new) \in 1 .. Len(new) /\ new # << >>
    BY <1>2, <1>5, <2>1, <2>2
  <2>. QED BY <1>5, <1>8, <1>11, <2>1, <2>3
<1>14. InFlight'
  BY <1>1, <1>7, <1>10 DEF IInv, InFlight
<1>15. TypeOK'
  <2>1. view' \in [messages : Seq(Message), generating : BOOLEAN]
    BY <1>0, <1>1, <1>6, <1>7, DrawnTyped DEF KeysKept, TypeOK
  <2>2. editing' \in ((Requests \cup {0}) \X {"user", "assistant", "none"}) /\ staleSave' \in BOOLEAN
    BY <1>0, <1>1 DEF NoKey, TypeOK
  <2>3. sessions' \in Seq(Conversation)
    BY <1>6 DEF KeysKept
  <2>. QED BY <1>0, <1>1, <2>1, <2>2, <2>3 DEF TypeOK
<1>. QED BY <1>1, <1>7, <1>9, <1>12, <1>13, <1>14, <1>15, DrawnKeeps DEF IInv

-----------------------------------------------------------------------------
(* The page is opened again. *)

\* The last unfinished message is finished, all others stay.
LEMMA Sanitized ==
  ASSUME NEW ms \in Seq(Message)
  PROVE  LET new == sanitizeMessagesOnLoad(ms)
         IN  /\ new \in Seq(Message) /\ Len(new) = Len(ms)
             /\ \A j \in 1 .. Len(ms) :
                  /\ Key(new[j]) = Key(ms[j])
                  /\ new[j].has = ms[j].has \/ new[j].has = {UserText}
                  /\ ~IsPending(ms[j]) => new[j] = ms[j]
                  /\ j = Len(ms) => ~IsPending(new[j])
<1>. DEFINE at == {i \in 1 .. Len(ms) : IsPending(ms[i])}
            new == sanitizeMessagesOnLoad(ms)
<1>0. Len(ms) \in Nat /\ DOMAIN ms = 1 .. Len(ms)
  OBVIOUS
<1>1. CASE at = {}
  <2>1. new = ms
    BY <1>1 DEF sanitizeMessagesOnLoad
  <2>. QED BY <1>1, <2>1
<1>2. CASE at # {}
  <2>. DEFINE target == CHOOSE i \in at : \A j \in at : j <= i
              m == ms[target]
              e == IF hasContent(m) THEN [m EXCEPT !.status = "complete"]
                   ELSE [m EXCEPT !.status = "error", !.has = {UserText}]
  <2>1. target \in at /\ \A j \in at : j <= target
    <3>1. at \subseteq 1 .. Len(ms)
      OBVIOUS
    <3>2. \E i \in at : \A j \in at : j <= i
      BY <1>0, <1>2, <3>1, GreatestNat
    <3>. HIDE DEF at
    <3>. QED BY <3>2
  <2>2. new = [ms EXCEPT ![target] = e]
    BY <1>2 DEF sanitizeMessagesOnLoad
  <2>3. target \in 1 .. Len(ms) /\ IsPending(ms[target])
    BY <2>1
  <2>4. \A j \in 1 .. Len(ms) : IsPending(ms[j]) => j <= target
    BY <2>1
  <2>. HIDE DEF target
  <2>5. m \in Message
    BY <2>3
  <2>6. /\ e \in Message /\ Key(e) = Key(m) /\ (e.has = m.has \/ e.has = {UserText})
        /\ e.status \in {"complete", "error"}
    <3>. HIDE DEF m
    <3>. QED BY <2>5 DEF Message, Key, UserText
  <2>7. ~IsPending(e)
    <3>. HIDE DEF e
    <3>. QED BY <2>6 DEF IsPending
  <2>. HIDE DEF e, new
  <2>8. /\ new \in Seq(Message) /\ Len(new) = Len(ms)
        /\ \A j \in 1 .. Len(ms) : new[j] = IF j = target THEN e ELSE ms[j]
    BY <1>0, <2>2, <2>3, <2>6
  <2>9. ASSUME NEW j \in 1 .. Len(ms)
        PROVE  /\ Key(new[j]) = Key(ms[j])
               /\ new[j].has = ms[j].has \/ new[j].has = {UserText}
               /\ ~IsPending(ms[j]) => new[j] = ms[j]
               /\ j = Len(ms) => ~IsPending(new[j])
    <3>1. CASE j = target
      BY <2>3, <2>6, <2>7, <2>8, <3>1
    <3>2. CASE j # target
      <4>1. new[j] = ms[j]
        BY <2>8, <3>2
      <4>2. j = Len(ms) => ~IsPending(ms[j])
        <5>. SUFFICES ASSUME j = Len(ms), IsPending(ms[j]) PROVE FALSE
          OBVIOUS
        <5>1. j <= target
          BY <2>4
        <5>2. target <= j /\ target \in Nat /\ j \in Nat
          BY <1>0, <2>3
        <5>. QED BY <3>2, <5>1, <5>2
      <4>. QED BY <4>1, <4>2
    <3>. QED BY <3>1, <3>2
  <2>. QED BY <2>8, <2>9 DEF new
<1>. QED BY <1>1, <1>2

\* What loadSessions makes of the stored conversations.
LEMMA ReloadRepairs ==
  ASSUME TypeOK, Reload
  PROVE  /\ KeysKept
         /\ \A i \in 1 .. Len(sessions) : \A j \in 1 .. Len(sessions[i].messages) :
              /\ \/ sessions'[i].messages[j].has = sessions[i].messages[j].has
                 \/ sessions'[i].messages[j].has = {UserText}
              /\ ~IsPending(sessions[i].messages[j]) =>
                   sessions'[i].messages[j] = sessions[i].messages[j]
              /\ j = Len(sessions[i].messages) => ~IsPending(sessions'[i].messages[j])
<1>0. sessions \in Seq(Conversation) /\ Len(sessions) \in Nat
  BY DEF TypeOK
<1>1. sessions' = [i \in 1 .. Len(sessions) |->
                     [sessions[i] EXCEPT !.messages = sanitizeMessagesOnLoad(sessions[i].messages)]]
  BY DEF Reload
<1>2. ASSUME NEW i \in 1 .. Len(sessions)
      PROVE  LET new == sanitizeMessagesOnLoad(sessions[i].messages)
             IN  /\ sessions'[i] \in Conversation /\ sessions'[i].id = sessions[i].id
                 /\ sessions'[i].messages = new
  <2>. DEFINE new == sanitizeMessagesOnLoad(sessions[i].messages)
  <2>1. sessions[i] \in Conversation /\ sessions[i].messages \in Seq(Message)
    BY <1>0, ConversationTypes
  <2>2. new \in Seq(Message)
    BY <2>1, Sanitized
  <2>. HIDE DEF new
  <2>3. sessions'[i] = [sessions[i] EXCEPT !.messages = new]
    BY <1>1 DEF new
  <2>4. sessions'[i] \in Conversation /\ sessions'[i].id = sessions[i].id /\ sessions'[i].messages = new
    BY <2>1, <2>2, <2>3 DEF Conversation
  <2>. QED BY <2>4 DEF new
<1>3. sessions' \in Seq(Conversation) /\ Len(sessions') = Len(sessions)
  BY <1>0, <1>1, <1>2
<1>4. ASSUME NEW i \in 1 .. Len(sessions)
      PROVE  LET ms == sessions[i].messages
                 new == sessions'[i].messages
             IN  /\ Len(new) = Len(ms)
                 /\ \A j \in 1 .. Len(ms) :
                      /\ Key(new[j]) = Key(ms[j])
                      /\ new[j].has = ms[j].has \/ new[j].has = {UserText}
                      /\ ~IsPending(ms[j]) => new[j] = ms[j]
                      /\ j = Len(ms) => ~IsPending(new[j])
  <2>1. sessions[i].messages \in Seq(Message)
    BY <1>0, ConversationTypes
  <2>2. sessions'[i].messages = sanitizeMessagesOnLoad(sessions[i].messages)
    BY <1>2
  <2>. QED BY <2>1, <2>2, Sanitized
<1>. QED BY <1>2, <1>3, <1>4 DEF KeysKept

\* A reload, which ends every request and repairs the conversations.
LEMMA ReloadKeeps ==
  ASSUME IInv, Wired', Reload
  PROVE  IInv'
<1>0. TypeOK /\ Distinct
  BY DEF IInv
<1>1. /\ source' = NoSource /\ isStreaming' = FALSE /\ http' = {} /\ controller' = 0
      /\ requestId' = 0 /\ pending' = {} /\ timer' = NoId /\ isRequesting' = FALSE
      /\ editing' = NoKey /\ Drawn
      /\ UNCHANGED <<active, lastRequest, edits, overlapped, broken, staleSave>>
  BY DEF Reload, bound, history
<1>2. /\ KeysKept
      /\ \A i \in 1 .. Len(sessions) : \A j \in 1 .. Len(sessions[i].messages) :
              /\ \/ sessions'[i].messages[j].has = sessions[i].messages[j].has
                 \/ sessions'[i].messages[j].has = {UserText}
              /\ ~IsPending(sessions[i].messages[j]) =>
                   sessions'[i].messages[j] = sessions[i].messages[j]
              /\ j = Len(sessions[i].messages) => ~IsPending(sessions'[i].messages[j])
  BY <1>0, ReloadRepairs
<1>3. Distinct'
  BY <1>0, <1>1, <1>2, KeysStay
<1>4. \A i \in 1 .. Len(sessions') : \A j \in 1 .. Len(sessions'[i].messages) :
        /\ i \in 1 .. Len(sessions) /\ j \in 1 .. Len(sessions[i].messages)
        /\ Len(sessions'[i].messages) = Len(sessions[i].messages)
        /\ sessions'[i].messages[j].req = sessions[i].messages[j].req
        /\ sessions'[i].messages[j].from = sessions[i].messages[j].from
  BY <1>2 DEF KeysKept, Key
<1>5. OwnText'
  <2>. SUFFICES ASSUME ~broken', NEW i \in 1 .. Len(sessions'), NEW j \in 1 .. Len(sessions'[i].messages)
                PROVE  Own(sessions'[i].messages[j], overlapped')
    BY OwnByPlaceNext DEF OwnAt
  <2>1. Own(sessions[i].messages[j], overlapped)
    BY <1>1, <1>4, OwnByPlace DEF IInv, OwnAt
  <2>2. \/ sessions'[i].messages[j].has = sessions[i].messages[j].has
        \/ sessions'[i].messages[j].has = {UserText}
    BY <1>2, <1>4
  <2>3. /\ sessions'[i].messages[j].req = sessions[i].messages[j].req
        /\ sessions'[i].messages[j].from = sessions[i].messages[j].from
    BY <1>4
  <2>. QED BY <1>1, <2>1, <2>2, <2>3 DEF Own
<1>6. UnfinishedRuns'
  <2>. SUFFICES ASSUME ~broken', ~staleSave', NEW i \in 1 .. Len(sessions'),
                       NEW j \in 1 .. Len(sessions'[i].messages),
                       IsPending(sessions'[i].messages[j]),
                       sessions'[i].messages[j].req \notin overlapped'
                PROVE  FALSE
    BY DEF UnfinishedRuns
  <2>1. i \in 1 .. Len(sessions) /\ j \in 1 .. Len(sessions[i].messages)
    BY <1>4
  <2>2. IsPending(sessions[i].messages[j])
    BY <1>2, <2>1
  <2>3. sessions[i].messages[j].req \notin overlapped
    BY <1>1, <1>4
  <2>4. j = Len(sessions[i].messages)
    BY <1>1, <2>1, <2>2, <2>3 DEF IInv, UnfinishedRuns
  <2>. QED BY <1>2, <2>1, <2>4
<1>7. WaitsForMessage'
  BY <1>1 DEF WaitsForMessage, Generating
<1>8. InFlight'
  <2>1. Running' = {}
    BY <1>1 DEF Running, NoSource
  <2>2. overlapped' \subseteq 1 .. lastRequest'
    BY <1>1 DEF IInv, InFlight
  <2>. QED BY <1>1, <2>1, <2>2 DEF InFlight
<1>9. TypeOK'
  <2>1. sessions' \in Seq(Conversation)
    BY <1>2 DEF KeysKept
  <2>2. view' \in [messages : Seq(Message), generating : BOOLEAN]
    BY <1>1, <1>3, <2>1, DrawnTyped
  <2>3. editing' \in ((Requests \cup {0}) \X {"user", "assistant", "none"})
    BY <1>1 DEF NoKey
  <2>. QED BY <1>0, <1>1, <2>1, <2>2, <2>3 DEF TypeOK, NoSource
<1>. QED BY <1>1, <1>3, <1>5, <1>6, <1>7, <1>8, <1>9, DrawnKeeps DEF IInv

-----------------------------------------------------------------------------
(* The invariant. *)

\* What an earlier visit has left.
LEMMA InitInvariant == Init => IInv
<1>. SUFFICES ASSUME Init PROVE IInv
  OBVIOUS
<1>. DEFINE p == createUserMessage(1)
            q == [createLoadingAssistantMessage(1) EXCEPT !.status = "complete", !.has = {1}]
<1>0. 1 \in Requests /\ active \in Ids
  BY PlaygroundAssumption DEF Init, Requests
<1>1. /\ p \in Message /\ q \in Message /\ Key(p) = <<1, "user">> /\ Key(q) = <<1, "assistant">>
      /\ p.req = 1 /\ q.req = 1 /\ p.from = "user" /\ q.has = {1} /\ ~IsPending(p) /\ ~IsPending(q)
  BY <1>0 DEF createUserMessage, createLoadingAssistantMessage, Message, Key, IsPending, UserText
<1>2. Stored = <<p, q>>
  BY DEF Stored
<1>. HIDE DEF p, q
<1>3. /\ Stored \in Seq(Message) /\ Len(Stored) = 2 /\ Stored[1] = p /\ Stored[2] = q
  BY <1>1, <1>2
<1>4. /\ sessions = <<[id |-> active, messages |-> Stored]>>
      /\ source = NoSource /\ http = {} /\ controller = 0 /\ requestId = 0
      /\ pending = {} /\ timer = NoId /\ isStreaming = FALSE /\ isRequesting = FALSE
      /\ editing = NoKey /\ view = [messages |-> Stored, generating |-> FALSE]
      /\ lastRequest = 1 /\ edits = 0 /\ overlapped = {} /\ broken = FALSE /\ staleSave = FALSE
  BY DEF Init
<1>. HIDE DEF Init
<1>5. /\ sessions \in Seq(Conversation) /\ Len(sessions) = 1 /\ sessions[1].id = active
      /\ sessions[1].messages = Stored
  <2>1. [id |-> active, messages |-> Stored] \in Conversation
    BY <1>0, <1>3 DEF Conversation
  <2>. QED BY <1>4, <2>1
<1>6. TypeOK
  <2>1. editing \in ((Requests \cup {0}) \X {"user", "assistant", "none"})
    BY <1>4 DEF NoKey
  <2>2. view \in [messages : Seq(Message), generating : BOOLEAN]
    BY <1>3, <1>4
  <2>3. source \in [req : Requests \cup {0}, sid : Ids \cup {NoId}, live : BOOLEAN]
    BY <1>4 DEF NoSource
  <2>4. edits \in 0 .. MaxEdits /\ lastRequest \in Requests
    BY <1>0, <1>4, PlaygroundAssumption
  <2>. QED BY <1>0, <1>4, <1>5, <2>1, <2>2, <2>3, <2>4 DEF TypeOK
<1>7. Wired
  BY <1>4 DEF Wired, NoSource
<1>8. \A j \in 1 .. Len(Stored) : (j = 1 /\ Stored[j] = p) \/ (j = 2 /\ Stored[j] = q)
  BY <1>3
<1>9. \A i \in 1 .. Len(sessions) : i = 1
  BY <1>5
<1>10. Distinct
  <2>1. Exists(active)
    BY <1>5 DEF Exists
  <2>2. ASSUME NEW j \in 1 .. Len(Stored), NEW l \in 1 .. Len(Stored), Key(Stored[j]) = Key(Stored[l])
        PROVE  j = l
    BY <1>1, <1>8, <2>2
  <2>3. \A j \in 1 .. Len(Stored) : Stored[j].req <= lastRequest
    BY <1>1, <1>4, <1>8
  <2>. QED BY <1>5, <1>9, <2>1, <2>2, <2>3 DEF Distinct
<1>11. Messages = Stored
  <2>1. PICK a \in 1 .. Len(sessions) : Messages = sessions[a].messages
    BY <1>10, OpenConversation
  <2>. QED BY <1>5, <1>9, <2>1
<1>12. ViewFollows
  BY <1>4, <1>11 DEF ViewFollows, Generating
<1>13. InFlight
  <2>1. Running = {}
    BY <1>4 DEF Running, NoSource
  <2>. QED BY <1>4, <2>1 DEF InFlight
<1>14. \A j \in 1 .. Len(Stored) : Own(Stored[j], overlapped) /\ ~IsPending(Stored[j])
  BY <1>1, <1>8 DEF Own
<1>15. OwnText
  BY <1>5, <1>9, <1>14, OwnByPlace DEF OwnAt
<1>16. DrawnOwn /\ DrawnFinished
  BY <1>4, <1>14 DEF DrawnOwn, DrawnFinished
<1>17. UnfinishedRuns
  BY <1>5, <1>9, <1>14 DEF UnfinishedRuns
<1>18. WaitsForMessage
  BY <1>4 DEF WaitsForMessage, Generating
<1>. QED BY <1>6, <1>7, <1>10, <1>12, <1>13, <1>15, <1>16, <1>17, <1>18 DEF IInv

\* One case per event.
LEMMA StepInvariant == IInv /\ [Next]_vars => IInv'
<1>. SUFFICES ASSUME IInv, [Next]_vars PROVE IInv'
  OBVIOUS
<1>0. Wired'
  BY WiredNext
<1>1. CASE Click
  <2>1. CASE HandleSendMessage
    BY <1>0, <2>1, SendMessageKeeps
  <2>2. ASSUME NEW i \in 1 .. Len(view.messages), HandleRegenerateMessage(i) PROVE IInv'
    BY <1>0, <2>2, RegenerateKeeps
  <2>3. ASSUME NEW i \in 1 .. Len(view.messages), HandleEditMessage(i) PROVE IInv'
    <3>1. /\ edits < MaxEdits /\ edits' = edits + 1 /\ editing' = Key(view.messages[i]) /\ Drawn
          /\ UNCHANGED <<sessions, active, stream, plain, buffer, isRequesting, lastRequest, history>>
      BY <2>3 DEF HandleEditMessage
    <3>2. edits' \in 0 .. MaxEdits
      BY <3>1, PlaygroundAssumption DEF IInv, TypeOK
    <3>3. view.messages[i] \in Message
      BY DEF IInv, TypeOK
    <3>4. editing' \in ((Requests \cup {0}) \X {"user", "assistant", "none"})
      BY <3>1, <3>3 DEF Message, Key
    <3>. QED BY <1>0, <3>1, <3>2, <3>4, DrawingKeeps
  <2>4. ASSUME NEW i \in 1 .. Len(view.messages), NEW shouldSubmit \in BOOLEAN,
               ApplyEdit(i, shouldSubmit)
        PROVE  IInv'
    <3>1. CASE shouldSubmit = TRUE
      BY <1>0, <2>4, <3>1, SubmitKeeps
    <3>2. CASE shouldSubmit = FALSE
      BY <1>0, <2>4, <3>2, SaveKeeps
    <3>. QED BY <3>1, <3>2
  <2>5. ASSUME NEW i \in 1 .. Len(view.messages), HandleDeleteMessage(i) PROVE IInv'
    BY <1>0, <2>5, DeleteMessageKeeps
  <2>6. CASE HandleEditOpenChange
    <3>1. /\ edits' = edits /\ editing' = NoKey /\ Drawn
          /\ UNCHANGED <<sessions, active, stream, plain, buffer, isRequesting, lastRequest, history>>
      BY <2>6 DEF HandleEditOpenChange, bound
    <3>2. edits' \in 0 .. MaxEdits /\ editing' \in ((Requests \cup {0}) \X {"user", "assistant", "none"})
      BY <3>1 DEF IInv, TypeOK, NoKey
    <3>. QED BY <1>0, <3>1, <3>2, DrawingKeeps
  <2>7. CASE HandleClearMessages
    BY <1>0, <2>7, ClearKeeps
  <2>8. ASSUME NEW id \in Ids, CreateNewSession(id) PROVE IInv'
    BY <1>0, <2>8, CreateKeeps
  <2>9. ASSUME NEW id \in Ids, SwitchSession(id) PROVE IInv'
    BY <1>0, <2>9, SwitchKeeps
  <2>10. ASSUME NEW id \in Ids, NEW fresh \in Ids, DeleteSession(id, fresh) PROVE IInv'
    BY <1>0, <2>10, DeleteSessionKeeps
  <2>11. CASE StopGeneration
    BY <1>0, <2>11, StopKeeps
  <2>. QED BY <1>1, <2>1, <2>2, <2>3, <2>4, <2>5, <2>6, <2>7, <2>8, <2>9, <2>10, <2>11 DEF Click
<1>2. CASE HandleStreamUpdate
  BY <1>0, <1>2, UpdateKeeps
<1>3. CASE FlushTimer
  BY <1>0, <1>3, FlushKeeps
<1>4. CASE SourceEnds
  <2>1. CASE HandleStreamComplete
    BY <1>0, <2>1, CompleteKeeps
  <2>2. ASSUME NEW more \in BOOLEAN, HandleStreamError(more) PROVE IInv'
    BY <1>0, <2>2, ErrorKeeps
  <2>3. CASE ConnectionEnds
    BY <1>0, <2>3, ConnectionEndsKeeps
  <2>. QED BY <1>4, <2>1, <2>2, <2>3 DEF SourceEnds
<1>5. ASSUME NEW h \in http, ResponseArrives(h) \/ RequestFails(h) PROVE IInv'
  BY <1>0, <1>5, ResponseKeeps, FailureKeeps
<1>6. CASE Render
  <2>1. /\ edits' = edits /\ editing' = editing /\ Drawn
        /\ UNCHANGED <<sessions, active, stream, plain, buffer, isRequesting, lastRequest, history>>
    BY <1>6 DEF Render, bound
  <2>2. edits' \in 0 .. MaxEdits /\ editing' \in ((Requests \cup {0}) \X {"user", "assistant", "none"})
    BY <2>1 DEF IInv, TypeOK
  <2>. QED BY <1>0, <2>1, <2>2, DrawingKeeps
<1>7. CASE Reload
  BY <1>0, <1>7, ReloadKeeps
<1>8. CASE UNCHANGED vars
  <2>0. UNCHANGED <<sessions, active, source, isStreaming, http, controller, requestId, pending, timer,
                    isRequesting, editing, view, lastRequest, edits, overlapped, broken, staleSave>>
    BY <1>8 DEF vars, stream, plain, buffer, bound, history
  <2>1. TypeOK' /\ Distinct' /\ ViewFollows'
    BY <2>0 DEF IInv, TypeOK, Distinct, Exists, ViewFollows, Messages, Generating
  <2>2. InFlight'
    BY <2>0 DEF IInv, InFlight, Running, Awaited, Messages
  <2>3. OwnText' /\ DrawnOwn' /\ UnfinishedRuns' /\ DrawnFinished' /\ WaitsForMessage'
    BY <2>0 DEF IInv, OwnText, AllMessages, DrawnOwn, UnfinishedRuns, DrawnFinished, WaitsForMessage,
         Running, Messages, Generating
  <2>. QED BY <1>0, <2>1, <2>2, <2>3 DEF IInv
<1>. QED BY <1>1, <1>2, <1>3, <1>4, <1>5, <1>6, <1>7, <1>8 DEF Next, RequestEnds

-----------------------------------------------------------------------------
(* What the page shows. *)

\* The inductive invariant of the page: types, refs, the places of messages, the drawing, what
\* is under way, and whose text each message holds; every event of use-chat-handler.ts,
\* use-stream-request.ts and use-playground-state.ts and every reload keeps it.
THEOREM Invariance == Spec => []IInv
BY InitInvariant, StepInvariant, PTL DEF Spec

\* No text of a request ends up in the answer to another: chunks that wait for
\* flushStreamUpdates, callbacks of a stopped or failed request and late responses write into
\* their own message, but for requests that overlapped and what came with a broken event.
THEOREM AnswersKeepTheirText == Spec => []OwnText
<1>1. IInv => OwnText
  BY DEF IInv
<1>. QED BY <1>1, Invariance, PTL

\* An unfinished last message is one under way, and the page knows of it.
LEMMA WaitingShown == IInv => PendingIffGenerating
<1>. SUFFICES ASSUME IInv, overlapped = {}, ~broken, ~staleSave
              PROVE  /\ Generating <=> (Messages # << >> /\ IsPending(Messages[Len(Messages)]))
                     /\ \A i \in 1 .. Len(sessions) : sessions[i].id # active =>
                          \A j \in 1 .. Len(sessions[i].messages) : ~IsPending(sessions[i].messages[j])
  BY DEF PendingIffGenerating
<1>1. PICK a \in 1 .. Len(sessions) : sessions[a].id = active /\ Messages = sessions[a].messages
  BY OpenConversation DEF IInv
<1>2. Generating => (Messages # << >> /\ IsPending(Messages[Len(Messages)]))
  BY DEF IInv, WaitsForMessage
<1>3. ASSUME NEW i \in 1 .. Len(sessions), NEW j \in 1 .. Len(sessions[i].messages),
             IsPending(sessions[i].messages[j])
      PROVE  sessions[i].id = active /\ lastRequest \in Running
  BY <1>3 DEF IInv, UnfinishedRuns
<1>4. ASSUME Messages # << >>, IsPending(Messages[Len(Messages)]) PROVE Generating
  <2>1. sessions[a].messages \in Seq(Message) /\ Len(sessions[a].messages) \in Nat
    BY ConversationTypes DEF IInv, TypeOK
  <2>2. Len(Messages) \in 1 .. Len(sessions[a].messages)
    BY <1>1, <1>4, <2>1
  <2>3. lastRequest \in Running
    BY <1>1, <1>3, <1>4, <2>2
  <2>4. CASE source # NoSource
    BY <2>4, SourceRuns
  <2>5. CASE source = NoSource
    <3>1. PICK h \in http : ~h.aborted /\ h.req = lastRequest
      BY <2>3, <2>5 DEF Running, NoSource
    <3>. QED BY <3>1, RequestRuns DEF Generating
  <2>. QED BY <2>4, <2>5
<1>. QED BY <1>2, <1>3, <1>4

\* The page waits for an answer exactly when the last message of the open conversation is
\* unfinished, and no other conversation has an unfinished one, while no two requests overlap,
\* no event is broken and no edit is saved over messages not yet drawn.
THEOREM WaitingIsShown == Spec => []PendingIffGenerating
BY Invariance, WaitingShown, PTL

\* The one message that sanitizeMessagesOnLoad repairs is the only unfinished one of its
\* conversation, but for those of requests that overlapped another.
THEOREM UnfinishedIsLast == Spec => []OneUnfinished
<1>1. IInv => OneUnfinished
  BY DEF IInv, UnfinishedRuns, OneUnfinished
<1>. QED BY <1>1, Invariance, PTL

-----------------------------------------------------------------------------
(* Finished answers. *)

Finished(m) == m.from = "assistant" /\ m.status \in {"complete", "error"}
SameAnswer(m, n) == n.status = m.status /\ n.has \in {m.has, m.has \cup {UserText}}
FinishedKept ==
  \A m \in AllMessages, n \in AllMessages' : (Key(m) = Key(n) /\ Finished(m)) => SameAnswer(m, n)

\* A key belongs to one message.
LEMMA OneOfEachKey ==
  ASSUME Distinct, NEW m \in AllMessages, NEW n \in AllMessages, Key(m) = Key(n)
  PROVE  m = n
<1>1. PICK i \in 1 .. Len(sessions) : \E j \in 1 .. Len(sessions[i].messages) :
        m = sessions[i].messages[j]
  BY Placed
<1>2. PICK j \in 1 .. Len(sessions[i].messages) : m = sessions[i].messages[j]
  BY <1>1
<1>3. PICK k \in 1 .. Len(sessions) : \E l \in 1 .. Len(sessions[k].messages) :
        n = sessions[k].messages[l]
  BY Placed
<1>4. PICK l \in 1 .. Len(sessions[k].messages) : n = sessions[k].messages[l]
  BY <1>3
<1>5. Key(sessions[i].messages[j]) = Key(sessions[k].messages[l])
  BY <1>2, <1>4
<1>6. \A c, d \in 1 .. Len(sessions) :
        \A p \in 1 .. Len(sessions[c].messages), q \in 1 .. Len(sessions[d].messages) :
          Key(sessions[c].messages[p]) = Key(sessions[d].messages[q]) => c = d /\ p = q
  BY DEF Distinct
<1>7. i = k /\ j = l
  BY <1>5, <1>6
<1>. QED BY <1>2, <1>4, <1>7

\* A step that writes no message.
LEMMA NoneWritten ==
  ASSUME Distinct, AllMessages' \subseteq AllMessages
  PROVE  FinishedKept
<1>. SUFFICES ASSUME NEW m \in AllMessages, NEW n \in AllMessages', Key(m) = Key(n)
              PROVE  SameAnswer(m, n)
  BY DEF FinishedKept
<1>1. m = n
  BY OneOfEachKey
<1>. QED BY <1>1 DEF SameAnswer

\* A step that keeps every message where it is.
LEMMA FinishedByPlace ==
  ASSUME Distinct, KeysKept,
         \A i \in 1 .. Len(sessions) : \A j \in 1 .. Len(sessions[i].messages) :
           Finished(sessions[i].messages[j]) =>
             SameAnswer(sessions[i].messages[j], sessions'[i].messages[j])
  PROVE  FinishedKept
<1>. SUFFICES ASSUME NEW m \in AllMessages, NEW n \in AllMessages', Key(m) = Key(n), Finished(m)
              PROVE  SameAnswer(m, n)
  BY DEF FinishedKept
<1>1. PICK i \in 1 .. Len(sessions') : \E j \in 1 .. Len(sessions'[i].messages) :
        n = sessions'[i].messages[j]
  BY PlacedNext
<1>2. PICK j \in 1 .. Len(sessions'[i].messages) : n = sessions'[i].messages[j]
  BY <1>1
<1>3. /\ i \in 1 .. Len(sessions) /\ j \in 1 .. Len(sessions[i].messages)
      /\ Key(n) = Key(sessions[i].messages[j])
  BY <1>2 DEF KeysKept
<1>4. sessions[i].messages[j] \in AllMessages
  BY <1>3, AtPlace
<1>5. m = sessions[i].messages[j]
  BY <1>3, <1>4, OneOfEachKey
<1>. QED BY <1>2, <1>3, <1>5

\* An event that writes where an answer is unfinished, or changes nothing there.
LEMMA WriteLeavesFinished ==
  ASSUME Distinct, NEW X, NEW add, Writes(X, add),
         \A i \in 1 .. Len(sessions) :
           LET ms == sessions[i].messages
           IN  (sessions[i].id = X /\ ms # << >>) =>
                 IsPending(ms[Len(ms)]) \/ sessions'[i].messages = ms
  PROVE  FinishedKept
<1>1. KeysKept
  BY WritesKeepKeys
<1>2. ASSUME NEW i \in 1 .. Len(sessions), NEW j \in 1 .. Len(sessions[i].messages),
             Finished(sessions[i].messages[j])
      PROVE  SameAnswer(sessions[i].messages[j], sessions'[i].messages[j])
  <2>. DEFINE ms == sessions[i].messages
  <2>1. ~IsPending(ms[j]) /\ ms # << >>
    BY <1>2 DEF Finished, IsPending
  <2>2. CASE sessions'[i].messages = ms
    BY <2>2 DEF SameAnswer
  <2>3. CASE sessions[i].id = X /\ sessions'[i].messages # ms
    <3>1. j # Len(ms)
      BY <2>1, <2>3
    <3>2. Touched(ms, sessions'[i].messages, add)
      BY <2>3 DEF Writes
    <3>3. sessions'[i].messages[j] = ms[j]
      BY <3>1, <3>2 DEF Touched
    <3>. QED BY <3>3 DEF SameAnswer
  <2>4. sessions[i].id # X => sessions'[i].messages = ms
    BY DEF Writes
  <2>. QED BY <2>2, <2>3, <2>4
<1>. QED BY <1>1, <1>2, FinishedByPlace

\* A page that waits has an unfinished last message.
LEMMA WaitingLast ==
  ASSUME IInv, ~broken, ~staleSave, overlapped = {}, Generating,
         NEW i \in 1 .. Len(sessions), sessions[i].id = active
  PROVE  LET ms == sessions[i].messages IN ms # << >> /\ IsPending(ms[Len(ms)])
<1>1. PICK a \in 1 .. Len(sessions) :
         /\ sessions[a].id = active /\ Messages = sessions[a].messages
         /\ \A k \in 1 .. Len(sessions) : sessions[k].id = active => k = a
  BY OpenConversation DEF IInv
<1>2. i = a
  BY <1>1
<1>3. Messages # << >> /\ IsPending(Messages[Len(Messages)])
  BY DEF IInv, WaitsForMessage
<1>. QED BY <1>1, <1>2, <1>3

\* A request sent from the messages that are there.
LEMMA SentLeavesFinished ==
  ASSUME IInv, NEW new, Asked(new), Replaced(new), view.messages = Messages
  PROVE  FinishedKept
<1>. SUFFICES ASSUME NEW m \in AllMessages, NEW n \in AllMessages', Key(m) = Key(n)
              PROVE  SameAnswer(m, n)
  BY DEF FinishedKept
<1>0. Distinct /\ sessions \in Seq(Conversation) /\ lastRequest \in Nat
  BY DEF IInv, TypeOK, Wired
<1>1. PICK a \in 1 .. Len(sessions) :
         /\ sessions[a].id = active /\ Messages = sessions[a].messages
         /\ \A k \in 1 .. Len(sessions) : sessions[k].id = active => k = a
  BY <1>0, OpenConversation
<1>2. PICK i \in 1 .. Len(sessions') : \E j \in 1 .. Len(sessions'[i].messages) :
        n = sessions'[i].messages[j]
  BY PlacedNext
<1>3. PICK j \in 1 .. Len(sessions'[i].messages) : n = sessions'[i].messages[j]
  BY <1>2
<1>4. /\ i \in 1 .. Len(sessions) /\ sessions'[a].messages = new
      /\ i # a => sessions'[i].messages = sessions[i].messages
  BY <1>1 DEF Replaced
<1>5. m.req # lastRequest + 1
  <2>1. PICK x \in 1 .. Len(sessions) : \E y \in 1 .. Len(sessions[x].messages) :
          m = sessions[x].messages[y]
    BY Placed
  <2>2. PICK y \in 1 .. Len(sessions[x].messages) : m = sessions[x].messages[y]
    BY <2>1
  <2>3. m \in Message
    BY <1>0, <2>2, ConversationTypes
  <2>4. m.req <= lastRequest
    BY <1>0, <2>2 DEF Distinct
  <2>. QED BY <1>0, <2>3, <2>4 DEF Message, Requests
<1>6. CASE i # a
  <2>0. j \in 1 .. Len(sessions[i].messages) /\ n = sessions[i].messages[j]
    BY <1>3, <1>4, <1>6
  <2>1. n \in AllMessages
    BY <1>4, <2>0, AtPlace
  <2>2. m = n
    BY <1>0, <2>1, OneOfEachKey
  <2>. QED BY <2>2 DEF SameAnswer
<1>7. CASE i = a
  <2>1. j \in 1 .. Len(new) /\ n = new[j]
    BY <1>3, <1>4, <1>7
  <2>2. \/ /\ j \in 1 .. Len(sessions[a].messages)
           /\ Key(new[j]) = Key(sessions[a].messages[j]) /\ Resembles(new[j], view.messages[j])
        \/ new[j] = createUserMessage(lastRequest + 1)
        \/ Key(new[j]) = <<lastRequest + 1, "assistant">>
    BY <1>1, <2>1, AskedKeys
  <2>3. CASE /\ j \in 1 .. Len(sessions[a].messages)
             /\ Key(new[j]) = Key(sessions[a].messages[j]) /\ Resembles(new[j], view.messages[j])
    <3>1. sessions[a].messages[j] \in AllMessages
      BY <2>3, AtPlace
    <3>2. m = sessions[a].messages[j]
      BY <1>0, <2>1, <2>3, <3>1, OneOfEachKey
    <3>3. view.messages[j] = m
      BY <1>1, <3>2
    <3>. QED BY <2>1, <2>3, <3>3 DEF SameAnswer, Resembles
  <2>4. CASE new[j] = createUserMessage(lastRequest + 1)
    BY <1>5, <2>1, <2>4 DEF createUserMessage, Key
  <2>5. CASE Key(new[j]) = <<lastRequest + 1, "assistant">>
    BY <1>5, <2>1, <2>5 DEF Key
  <2>. QED BY <2>2, <2>3, <2>4, <2>5
<1>. QED BY <1>6, <1>7

\* A request sent while the drawing is what is there.
LEMMA SendLeavesFinished ==
  ASSUME IInv, NEW ms, Asked(ms), IsPending(ms[Len(ms)]), sendChat(ms), view.messages = Messages
  PROVE  FinishedKept
<1>1. PICK new : Asked(new) /\ Replaced(new)
  BY Sent DEF IInv
<1>. QED BY <1>1, SentLeavesFinished

\* The conversations stay.
LEMMA UnwrittenStep == ASSUME Distinct, sessions' = sessions PROVE FinishedKept
<1>1. AllMessages' = AllMessages
  BY DEF AllMessages
<1>. QED BY <1>1, NoneWritten

\* The drawing, if it is what is there, replaces the messages.
LEMMA SaveLeavesFinished ==
  ASSUME IInv, NEW e \in 1 .. Len(view.messages), ApplyEdit(e, FALSE), view.messages = Messages
  PROVE  FinishedKept
<1>0. Distinct /\ TypeOK
  BY DEF IInv
<1>1. PICK new : Replaced(new) /\ new \in Seq(Message) /\ Len(new) = Len(view.messages)
                   /\ \A j \in 1 .. Len(view.messages) : Resembles(new[j], view.messages[j])
  BY SaveReplaces
<1>2. PICK a \in 1 .. Len(sessions) :
         /\ sessions[a].id = active /\ Messages = sessions[a].messages
         /\ \A k \in 1 .. Len(sessions) : sessions[k].id = active => k = a
  BY <1>0, OpenConversation
<1>3. /\ sessions' \in Seq(Conversation) /\ Len(sessions') = Len(sessions)
      /\ sessions'[a].messages = new
      /\ \A i \in 1 .. Len(sessions) : sessions'[i].id = sessions[i].id
      /\ \A i \in 1 .. Len(sessions) : i # a => sessions'[i].messages = sessions[i].messages
  BY <1>1, <1>2 DEF Replaced
<1>4. /\ Len(new) = Len(sessions[a].messages)
      /\ \A j \in 1 .. Len(sessions[a].messages) : Resembles(new[j], sessions[a].messages[j])
  BY <1>1, <1>2
<1>5. KeysKept
  BY <1>3, <1>4 DEF KeysKept, Resembles
<1>6. ASSUME NEW i \in 1 .. Len(sessions), NEW j \in 1 .. Len(sessions[i].messages)
      PROVE  SameAnswer(sessions[i].messages[j], sessions'[i].messages[j])
  <2>1. CASE i = a
    BY <1>3, <1>4, <2>1 DEF SameAnswer, Resembles
  <2>2. CASE i # a
    BY <1>3, <2>2 DEF SameAnswer
  <2>. QED BY <2>1, <2>2
<1>. QED BY <1>0, <1>5, <1>6, FinishedByPlace

\* A reload repairs what is unfinished and nothing else.
LEMMA ReloadLeavesFinished ==
  ASSUME IInv, Reload
  PROVE  FinishedKept
<1>0. Distinct /\ TypeOK
  BY DEF IInv
<1>1. ASSUME NEW i \in 1 .. Len(sessions), NEW j \in 1 .. Len(sessions[i].messages),
             Finished(sessions[i].messages[j])
      PROVE  SameAnswer(sessions[i].messages[j], sessions'[i].messages[j])
  <2>1. ~IsPending(sessions[i].messages[j])
    BY <1>1 DEF Finished, IsPending
  <2>2. sessions'[i].messages[j] = sessions[i].messages[j]
    BY <1>0, <2>1, ReloadRepairs
  <2>. QED BY <2>2 DEF SameAnswer
<1>2. KeysKept
  BY <1>0, ReloadRepairs
<1>. QED BY <1>0, <1>1, <1>2, FinishedByPlace

\* The history of edits saved over messages not yet drawn is never forgotten.
LEMMA StaleStays == ASSUME [Next]_vars, staleSave PROVE staleSave'
<1>1. ASSUME UNCHANGED staleSave PROVE staleSave'
  BY <1>1
<1>2. ASSUME NEW i, NEW b, ApplyEdit(i, b) PROVE staleSave'
  BY <1>2 DEF ApplyEdit
<1>3. ASSUME Click PROVE staleSave'
  BY <1>1, <1>2, <1>3 DEF Click, HandleSendMessage, HandleRegenerateMessage, HandleEditMessage,
       HandleDeleteMessage, HandleEditOpenChange, HandleClearMessages, CreateNewSession,
       SwitchSession, DeleteSession, StopGeneration, history
<1>4. ASSUME NEW h, ResponseArrives(h) \/ RequestFails(h) PROVE staleSave'
  BY <1>1, <1>4 DEF ResponseArrives, RequestFails, Finally, history
<1>5. ASSUME SourceEnds PROVE staleSave'
  BY <1>1, <1>5 DEF SourceEnds, HandleStreamComplete, HandleStreamError, ConnectionEnds, history
<1>. QED BY <1>1, <1>3, <1>4, <1>5 DEF Next, RequestEnds, HandleStreamUpdate, FlushTimer, Render,
              Reload, history, vars

\* An event that writes into the open conversation while its last answer is awaited.
LEMMA EventLeavesFinished ==
  ASSUME IInv, overlapped = {}, ~broken, ~staleSave, NEW X, NEW add, Writes(X, add),
         X = active, Generating
  PROVE  FinishedKept
<1>1. \A i \in 1 .. Len(sessions) :
        LET ms == sessions[i].messages
        IN  (sessions[i].id = X /\ ms # << >>) =>
              IsPending(ms[Len(ms)]) \/ sessions'[i].messages = ms
  BY WaitingLast
<1>. QED BY <1>1, WriteLeavesFinished DEF IInv

\* The stop button on a page that waits no longer, drawn as if it did, changes nothing.
LEMMA StopLeavesFinished ==
  ASSUME IInv, StopGeneration, overlapped = {}, ~broken, ~staleSave
  PROVE  FinishedKept
<1>1. sessions' = Rewrite(sessions, active,
                     [i \in 1 .. Len(sessions) |-> completed(flushed(sessions[i].messages))])
  BY DEF StopGeneration, updateMessages, Rewrite
<1>2. /\ Writes(active, pending)
      /\ \A i \in 1 .. Len(sessions) :
           (pending = {} /\ Ended(sessions[i].messages)) =>
             sessions'[i].messages = sessions[i].messages
  BY <1>1, CompleteWrites DEF IInv
<1>3. CASE Generating
  BY <1>2, <1>3, EventLeavesFinished
<1>4. CASE ~Generating
  <2>1. pending = {}
    BY <1>4 DEF Generating, IInv, Wired, InFlight
  <2>2. \A i \in 1 .. Len(sessions) :
          LET ms == sessions[i].messages
          IN  (sessions[i].id = active /\ ms # << >>) =>
                IsPending(ms[Len(ms)]) \/ sessions'[i].messages = ms
    BY <1>2, <2>1 DEF Ended
  <2>. QED BY <1>2, <2>2, WriteLeavesFinished DEF IInv
<1>. QED BY <1>3, <1>4

\* A plain request that is over.
LEMMA AnswerLeavesFinished ==
  ASSUME IInv, overlapped = {}, ~broken, ~staleSave, NEW h \in http,
         ResponseArrives(h) \/ RequestFails(h)
  PROVE  FinishedKept
<1>1. CASE h.aborted
  <2>1. sessions' = sessions
    BY <1>1 DEF ResponseArrives, RequestFails
  <2>. QED BY <2>1, UnwrittenStep DEF IInv
<1>2. CASE ~h.aborted
  <2>1. h.sid = active /\ Generating
    BY <1>2, RequestRuns DEF Generating
  <2>2. CASE ResponseArrives(h)
    <3>1. h.req \in Requests
      BY DEF IInv, TypeOK
    <3>2. sessions' = Rewrite(sessions, h.sid,
                        [i \in 1 .. Len(sessions) |-> answered(sessions[i].messages, h.req)])
      BY <1>2, <2>2 DEF ResponseArrives, updateMessages, Rewrite
    <3>3. Writes(h.sid, {h.req})
      BY <3>1, <3>2, AnswerWrites DEF IInv
    <3>. QED BY <2>1, <3>3, EventLeavesFinished
  <2>3. CASE RequestFails(h)
    <3>1. sessions' = Rewrite(sessions, h.sid,
                        [i \in 1 .. Len(sessions) |-> withError(flushed(sessions[i].messages))])
      BY <1>2, <2>3 DEF RequestFails, updateMessages, Rewrite
    <3>2. Writes(h.sid, pending)
      BY <3>1, ErrorWrites DEF IInv
    <3>. QED BY <2>1, <3>2, EventLeavesFinished
  <2>. QED BY <2>2, <2>3
<1>. QED BY <1>1, <1>2

\* The timer, [DONE] or an error of the source.
LEMMA SourceLeavesFinished ==
  ASSUME IInv, overlapped = {}, ~broken, ~staleSave,
         FlushTimer \/ HandleStreamComplete \/ (\E more \in BOOLEAN : HandleStreamError(more))
  PROVE  FinishedKept
<1>1. CASE FlushTimer
  <2>1. timer = active /\ Generating
    <3>1. timer # NoId
      BY <1>1 DEF FlushTimer
    <3>2. source # NoSource /\ timer = active
      BY <3>1 DEF IInv, InFlight
    <3>. QED BY <3>2, SourceRuns
  <2>2. sessions' = Rewrite(sessions, timer, [i \in 1 .. Len(sessions) |-> flushed(sessions[i].messages)])
    BY <1>1 DEF FlushTimer, updateMessages, Rewrite
  <2>3. Writes(timer, pending)
    BY <2>2, FlushWrites DEF IInv
  <2>. QED BY <2>1, <2>3, EventLeavesFinished
<1>2. ASSUME source.live PROVE source.sid = active /\ Generating
  <2>1. source # NoSource
    BY <1>2 DEF NoSource
  <2>. QED BY <2>1, SourceRuns
<1>3. CASE HandleStreamComplete
  <2>1. source.live
    BY <1>3 DEF HandleStreamComplete
  <2>2. sessions' = Rewrite(sessions, source.sid,
                      [i \in 1 .. Len(sessions) |-> completed(flushed(sessions[i].messages))])
    BY <1>3 DEF HandleStreamComplete, updateMessages, Rewrite
  <2>3. Writes(source.sid, pending)
    BY <2>2, CompleteWrites DEF IInv
  <2>. QED BY <1>2, <2>1, <2>3, EventLeavesFinished
<1>4. ASSUME NEW more \in BOOLEAN, HandleStreamError(more) PROVE FinishedKept
  <2>1. source.live
    BY <1>4 DEF HandleStreamError
  <2>2. sessions' = Rewrite(sessions, source.sid,
                      [i \in 1 .. Len(sessions) |-> withError(flushed(sessions[i].messages))])
    BY <1>4 DEF HandleStreamError, updateMessages, Rewrite
  <2>3. Writes(source.sid, pending)
    BY <2>2, ErrorWrites DEF IInv
  <2>. QED BY <1>2, <2>1, <2>3, EventLeavesFinished
<1>. QED BY <1>1, <1>3, <1>4

\* One case per event.
LEMMA StepKeepsFinished ==
  ASSUME IInv, [Next]_vars, overlapped = {}, ~broken, ~staleSave'
  PROVE  FinishedKept
<1>0. Wired' /\ Distinct /\ TypeOK
  BY WiredNext DEF IInv
<1>1. ~staleSave
  BY StaleStays
<1>2. ASSUME ~view.generating PROVE view.messages = Messages
  BY <1>2 DEF IInv, ViewFollows
<1>3. CASE sessions' = sessions
  BY <1>0, <1>3, UnwrittenStep
<1>4. CASE Click
  <2>1. CASE HandleSendMessage
    <3>1. PICK ms : Asked(ms) /\ IsPending(ms[Len(ms)]) /\ sendChat(ms)
      BY <2>1, SendMessageAsks
    <3>2. ~view.generating
      BY <2>1 DEF HandleSendMessage
    <3>. QED BY <1>2, <3>1, <3>2, SendLeavesFinished
  <2>2. ASSUME NEW i \in 1 .. Len(view.messages), HandleRegenerateMessage(i) PROVE FinishedKept
    <3>1. PICK ms : Asked(ms) /\ IsPending(ms[Len(ms)]) /\ sendChat(ms)
      BY <2>2, RegenerateAsks
    <3>2. ~view.generating
      BY <2>2 DEF HandleRegenerateMessage
    <3>. QED BY <1>2, <3>1, <3>2, SendLeavesFinished
  <2>3. ASSUME NEW i \in 1 .. Len(view.messages), NEW shouldSubmit \in BOOLEAN,
               ApplyEdit(i, shouldSubmit)
        PROVE  FinishedKept
    <3>0. view.messages = Messages
      BY <2>3 DEF ApplyEdit
    <3>1. CASE shouldSubmit = TRUE
      <4>1. ApplyEdit(i, TRUE)
        BY <2>3, <3>1
      <4>2. PICK ms : Asked(ms) /\ IsPending(ms[Len(ms)]) /\ sendChat(ms)
        BY <4>1, SubmitAsks
      <4>. QED BY <3>0, <4>2, SendLeavesFinished
    <3>2. CASE shouldSubmit = FALSE
      <4>1. ApplyEdit(i, FALSE)
        BY <2>3, <3>2
      <4>. QED BY <3>0, <4>1, SaveLeavesFinished
    <3>. QED BY <3>1, <3>2
  <2>4. ASSUME NEW i \in 1 .. Len(view.messages), HandleDeleteMessage(i) PROVE FinishedKept
    BY <1>0, <2>4, DeleteMessageKeeps, NoneWritten
  <2>5. CASE HandleClearMessages
    BY <1>0, <2>5, ClearKeeps, NoneWritten
  <2>6. ASSUME NEW id \in Ids, CreateNewSession(id) PROVE FinishedKept
    BY <1>0, <2>6, CreateKeeps, NoneWritten
  <2>7. ASSUME NEW id \in Ids, NEW fresh \in Ids, DeleteSession(id, fresh) PROVE FinishedKept
    BY <1>0, <2>7, DeleteSessionKeeps, NoneWritten
  <2>8. CASE StopGeneration
    BY <1>1, <2>8, StopLeavesFinished
  <2>9. ASSUME NEW i, HandleEditMessage(i) PROVE FinishedKept
    BY <1>3, <2>9 DEF HandleEditMessage
  <2>10. CASE HandleEditOpenChange
    BY <1>3, <2>10 DEF HandleEditOpenChange
  <2>11. ASSUME NEW id \in Ids, SwitchSession(id) PROVE FinishedKept
    BY <1>3, <2>11 DEF SwitchSession
  <2>. QED BY <1>4, <2>1, <2>2, <2>3, <2>4, <2>5, <2>6, <2>7, <2>8, <2>9, <2>10, <2>11 DEF Click
<1>5. CASE FlushTimer \/ HandleStreamComplete \/ (\E more \in BOOLEAN : HandleStreamError(more))
  BY <1>1, <1>5, SourceLeavesFinished
<1>6. ASSUME NEW h \in http, ResponseArrives(h) \/ RequestFails(h) PROVE FinishedKept
  BY <1>1, <1>6, AnswerLeavesFinished
<1>7. CASE Reload
  BY <1>7, ReloadLeavesFinished
<1>8. CASE HandleStreamUpdate \/ ConnectionEnds \/ Render
  BY <1>3, <1>8 DEF HandleStreamUpdate, ConnectionEnds, Render
<1>9. CASE UNCHANGED vars
  BY <1>3, <1>9 DEF vars
<1>. QED BY <1>4, <1>5, <1>6, <1>7, <1>8, <1>9 DEF Next, RequestEnds, SourceEnds

\* A finished answer keeps its text, unless the user edits it, and stays finished: no late chunk,
\* timer, response, click or stop touches it, while requests do not overlap, no event is broken
\* and no edit is saved over messages not yet drawn; and a reload does not in any case.
THEOREM FinishedAnswersStay == Spec => FinishedStays
<1>. DEFINE A == \A m \in AllMessages, n \in AllMessages' :
        (Key(m) = Key(n) /\ m.from = "assistant" /\ m.status \in {"complete", "error"})
          => \/ n.status = m.status /\ n.has \in {m.has, m.has \cup {UserText}}
             \/ ~Reload /\ (overlapped # {} \/ broken \/ staleSave')
<1>1. IInv /\ [Next]_vars => [A]_vars
  <2>. SUFFICES ASSUME IInv, [Next]_vars PROVE A
    OBVIOUS
  <2>1. CASE ~Reload /\ (overlapped # {} \/ broken \/ staleSave')
    BY <2>1
  <2>2. CASE Reload \/ ~(overlapped # {} \/ broken \/ staleSave')
    <3>1. FinishedKept
      BY <2>2, StepKeepsFinished, ReloadLeavesFinished
    <3>. QED BY <3>1 DEF FinishedKept, Finished, SameAnswer
  <2>. QED BY <2>1, <2>2
<1>. QED BY <1>1, Invariance, PTL DEF Spec, FinishedStays
=============================================================================
