----------------------------- MODULE BodyLimit -----------------------------
(***************************************************************************)
(* api.BodyLimitMiddleware for one request with a body: it buffers the     *)
(* body, refuses it or replays it to the application, and watches the      *)
(* channel for a disconnect while the application works.  Client, server   *)
(* and application act at any moment.                                      *)
(***************************************************************************)
EXTENDS Integers

CONSTANTS MaxBytes,  \* max_bytes
          ChunkSizes \* the sizes a piece of the body may have

ASSUME LimitAssumption == MaxBytes \in Nat /\ ChunkSizes \subseteq Nat

VARIABLES pc,        \* the middleware: reading the body, waiting, closing, done
          size,      \* the bytes received
          app,       \* the task `application`
          watcher,   \* the task `watcher`
          cutTasks,  \* those of the two with a cancel() to digest
          answers,   \* the responses sent on this connection
          gone,      \* the client has disconnected
          dropped    \* the server has cancelled the middleware

bodyVars == <<pc, size, app, watcher, cutTasks, answers, gone, dropped>>
clientVars == <<gone, dropped>>

Ended == {"returned", "failed", "cancelled"}

BodyTypeOK == /\ pc \in {"reading", "waiting", "closing", "done"}
              /\ size \in Nat
              /\ app \in {"none", "new", "working", "listening"} \union Ended
              /\ watcher \in {"none", "new", "reading"} \union Ended
              /\ app = "none" <=> watcher = "none"
              /\ cutTasks \subseteq {"app", "watcher"}
              /\ answers \in [{"413", "422", "app"} -> Nat]
              /\ gone \in BOOLEAN /\ dropped \in BOOLEAN

BodyInit == /\ pc = "reading" /\ size = 0
            /\ app = "none" /\ watcher = "none" /\ cutTasks = {}
            /\ answers = [a \in {"413", "422", "app"} |-> 0]
            /\ gone = FALSE /\ dropped = FALSE

-----------------------------------------------------------------------------
(* Names of the form X_y are mutated forms of X: plausible bugs against     *)
(* which the properties are tried out.  The specification never uses them. *)

Answer(a) == answers' = [answers EXCEPT ![a] = @ + 1]

\* After the last byte of the response the server reports a disconnect, too.
ChannelClosed == gone \/ \E a \in DOMAIN answers : answers[a] > 0

TooLarge_late(n) == size > MaxBytes

TooLarge(n) == size + n > MaxBytes

\* One more piece of the body; after the last one, the verdict on its JSON.
Chunk(n, more) ==
    /\ pc = "reading" /\ ~gone
    /\ size' = size + n
    /\ \/ TooLarge(n) /\ Answer("413") /\ pc' = "done" /\ UNCHANGED <<app, watcher>>
       \/ ~TooLarge(n) /\ more /\ UNCHANGED <<pc, app, watcher, answers>>
       \/ ~TooLarge(n) /\ ~more /\ Answer("422") /\ pc' = "done" /\ UNCHANGED <<app, watcher>>
       \/ ~TooLarge(n) /\ ~more /\ pc' = "waiting" /\ app' = "new" /\ watcher' = "new"
          /\ UNCHANGED answers
    /\ UNCHANGED <<cutTasks, clientVars>>

BodyAbandoned == /\ pc = "reading" /\ gone
                 /\ pc' = "done"
                 /\ UNCHANGED <<size, app, watcher, cutTasks, answers, clientVars>>

-----------------------------------------------------------------------------
(* The two tasks. *)

\* The application gets the whole body from replay(), may call it again to
\* learn of a disconnect, answers at most once and ends.
AppSteps ==
    /\ "app" \notin cutTasks
    /\ \/ app = "new" /\ app' = "working" /\ UNCHANGED answers
       \/ app = "working" /\ app' = "listening" /\ UNCHANGED answers
       \/ app = "listening" /\ watcher = "returned" /\ app' = "working" /\ UNCHANGED answers
       \/ app = "working" /\ answers["app"] = 0 /\ Answer("app") /\ UNCHANGED app
       \/ app = "working" /\ answers["app"] = 1 /\ app' = "returned" /\ UNCHANGED answers
       \/ app = "working" /\ app' = "failed" /\ UNCHANGED answers
    /\ UNCHANGED <<pc, size, watcher, cutTasks, clientVars>>

AppCut == /\ "app" \in cutTasks
          /\ app \notin Ended
          /\ app' = "cancelled"
          /\ UNCHANGED <<pc, size, watcher, cutTasks, answers, clientVars>>

Disconnected_any == TRUE

\* Any other message on the channel is skipped.
Disconnected == ChannelClosed

WatcherSteps ==
    /\ \/ "watcher" \notin cutTasks /\ watcher = "new" /\ watcher' = "reading"
       \/ "watcher" \notin cutTasks /\ watcher = "reading" /\ Disconnected /\ watcher' = "returned"
       \/ "watcher" \in cutTasks /\ watcher \notin Ended /\ watcher' = "cancelled"
    /\ UNCHANGED <<pc, size, app, cutTasks, answers, clientVars>>

-----------------------------------------------------------------------------
(* asyncio.wait, and the finally block. *)

Unfinished == {t \in {"app", "watcher"} :
                 (t = "app" /\ app \notin Ended) \/ (t = "watcher" /\ watcher \notin Ended)}

CutOnReturn_watcherOnly == Unfinished \ {"app"}

CutOnReturn == Unfinished

\* One of the two is done, or the server cancels the middleware.
WaitEnds == /\ pc = "waiting"
            /\ Unfinished # {"app", "watcher"} \/ dropped
            /\ pc' = "closing"
            /\ cutTasks' = cutTasks \union CutOnReturn
            /\ UNCHANGED <<size, app, watcher, answers, clientVars>>

Settled_any == TRUE

Settled == Unfinished = {}

Returns == /\ pc = "closing"
           /\ Settled
           /\ pc' = "done"
           /\ UNCHANGED <<size, app, watcher, cutTasks, answers, clientVars>>

\* The server's own cancellation while the body is read.
Dropped == /\ pc = "reading" /\ dropped
           /\ pc' = "done"
           /\ UNCHANGED <<size, app, watcher, cutTasks, answers, clientVars>>

Disconnect == ~gone /\ gone' = TRUE /\ UNCHANGED <<pc, size, app, watcher, cutTasks, answers, dropped>>
Drop == /\ ~dropped /\ dropped' = TRUE
        /\ cutTasks' = IF pc = "closing" THEN cutTasks \union Unfinished ELSE cutTasks
        /\ UNCHANGED <<pc, size, app, watcher, answers, gone>>

Idle == pc = "done" /\ gone /\ dropped /\ UNCHANGED bodyVars

Middleware == BodyAbandoned \/ Dropped \/ WaitEnds \/ Returns

BodyNext == \/ \E n \in ChunkSizes, more \in BOOLEAN : Chunk(n, more)
            \/ Middleware \/ AppSteps \/ AppCut \/ WatcherSteps \/ Disconnect \/ Drop \/ Idle

BodySpec == BodyInit /\ [][BodyNext]_bodyVars

\* The event loop; the application itself may work for ever.
BodyFairSpec == BodySpec /\ WF_bodyVars(Middleware) /\ WF_bodyVars(AppCut) /\ WF_bodyVars(WatcherSteps)

-----------------------------------------------------------------------------
\* A client that stays gets exactly one answer, unless the application fails
\* or the server gives up; in particular the watcher never cuts an answer
\* short.  A body over the limit is refused for its size, however it was cut
\* into pieces, no other one is, and it never meets the application
\* (api.py:41-58, 84-100).
StayingClientIsAnswered ==
    LET sent == answers["413"] + answers["422"] + answers["app"]
    IN  /\ sent <= 1
        /\ pc = "done" /\ ~gone /\ ~dropped => sent = 1 \/ app = "failed"
        /\ answers["413"] = 1 <=> size > MaxBytes
        /\ app # "none" => size <= MaxBytes

\* When the middleware returns, neither task is alive (api.py:101-105).
NoTaskSurvives == pc = "done" => Unfinished \subseteq {t \in {"app", "watcher"} : app = "none"}

\* A disconnect ends the request, whatever the application is waiting for
\* (api.py:84-100, 102-105).
DisconnectEnds == gone ~> pc = "done"
=============================================================================
