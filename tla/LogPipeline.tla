----------------------------- MODULE LogPipeline -----------------------------
(***************************************************************************)
(* File logging of app.core.logger.  configure_logging makes a pipeline: a *)
(* handler on the root logger that puts records into a bounded queue       *)
(* without waiting, and a listener thread that writes them to a file.      *)
(* shutdown_logging stops the listener, closes the file and detaches the   *)
(* handlers while other threads may still be logging, and so does every    *)
(* further configure_logging before it makes a new pipeline; a listener    *)
(* that could not be stopped then lives on beside the new one.             *)
(*                                                                         *)
(* External: QueueListener of the Python the project pins.  stop() puts a  *)
(* sentinel with put_nowait, which raises when the queue is full, and then *)
(* joins the thread; a closed FileHandler in append mode opens its file    *)
(* again when a record arrives.  An error of the stream is swallowed by    *)
(* the handler, one of opening the file ends the listener's thread.        *)
(***************************************************************************)
EXTENDS Naturals, Sequences, FiniteSets

CONSTANTS
    Threads,      \* threads that log
    Ids,          \* correlation ids of the requests they serve
    NoId,         \* the correlation id outside any request
    QueueSize,    \* maxsize of the queue
    MaxRecords    \* bound: records logged to each pipeline; their number
                  \* also bounds the pipelines

ASSUME LogAssumption ==
    /\ NoId \notin Ids
    /\ QueueSize \in Nat \ {0}
    /\ MaxRecords \in Seq(Nat)
    /\ IsFiniteSet(Threads)

VARIABLES
    phase,    \* where the process is in configuring and shutting down
    attached, \* the pipeline whose handler is on the root logger, 0 for none
    pipes,    \* the pipelines made so far
    pending   \* pending[t]: the record t is handing over

vars == <<phase, attached, pipes, pending>>

Sentinel == 0
NoRecord == [pipe |-> 0, n |-> 0]
Pipes == DOMAIN pipes

(* A pipeline; its records are numbered in the order they were made. *)
NewPipe ==
    [emitted    |-> <<>>,  \* emitted[n]: the id of the request that made n
     stamped    |-> <<>>,  \* stamped[n]: the id set on record n as it was made
     accepted   |-> <<>>,  \* the records the queue has taken, in order
     queue      |-> <<>>,
     written    |-> <<>>,  \* the records handled, each with the id of its
                           \* line and whether the line got into the file
     listener   |-> "waiting",
     context    |-> NoId,  \* correlation_id_var in the listener's thread,
                           \* which is started outside any request
     inHand     |-> 0,     \* the record the listener is writing
     open       |-> TRUE,  \* the file handler has a stream
     dropped    |-> 0,     \* _dropped_count of the handler
     reported   |-> 0,     \* the drops written to stderr
     refused    |-> 0,     \* the drops stderr would not take a report of
     before     |-> 0,     \* records accepted when stop() was called
     stopFailed |-> FALSE] \* stop() raised

Init ==
    /\ phase = "off"
    /\ attached = 0
    /\ pipes = <<>>
    /\ pending = [t \in Threads |-> NoRecord]

Full(g) == Len(pipes[g].queue) >= QueueSize

-------------------------------------------------------------------------------
(* configure_logging, once the shutdown it begins with is over *)

(* The file, the queue, the listener and the handler are all set up. *)
Configure ==
    /\ phase \in {"off", "down"}
    /\ Len(pipes) < Len(MaxRecords)
    /\ phase' = "up"
    /\ pipes' = Append(pipes, NewPipe)
    /\ attached' = Len(pipes) + 1
    /\ UNCHANGED pending

(* One of these steps raises: everything but the console is undone. *)
ConfigureFails ==
    /\ phase \in {"off", "down"}
    /\ Len(pipes) < Len(MaxRecords)
    /\ phase' = "up"
    /\ UNCHANGED <<attached, pipes, pending>>

-------------------------------------------------------------------------------
(* The threads that log *)

(* Bound: a record more may be made. *)
MayEmit ==
    attached # 0 /\ Len(pipes[attached].emitted) < MaxRecords[attached]

(* MUTANT: the id is set whether or not the context has one. *)
StampAlways(context, id) == context

(* CorrelationIDFilter in a thread with this context, on a record that has *)
(* this id (NoId: none) so far.                                            *)
Stamp(context, id) == IF context # NoId THEN context ELSE id

(* A record is made for request id, or for none, and passes the queue      *)
(* handler's filter in the thread that logs, whose context has that id.    *)
Emit(t, id) ==
    /\ MayEmit
    /\ pending[t] = NoRecord
    /\ pipes' = [pipes EXCEPT ![attached].emitted = Append(@, id),
                              ![attached].stamped = Append(@, Stamp(id, NoId))]
    /\ pending' = [pending EXCEPT ![t] =
                     [pipe |-> attached, n |-> Len(pipes[attached].emitted) + 1]]
    /\ UNCHANGED <<phase, attached>>

HandOver(t, pipe) ==
    /\ pending[t] # NoRecord
    /\ pipes' = [pipes EXCEPT ![pending[t].pipe] = pipe]
    /\ pending' = [pending EXCEPT ![t] = NoRecord]
    /\ UNCHANGED <<phase, attached>>

(* The queue takes record n. *)
Accept(pipe, n) == [pipe EXCEPT !.queue = Append(@, n),
                                !.accepted = Append(@, n)]

(* MUTANT: the record goes to whatever pipeline is attached by now. *)
EnqueueElsewhere(t) ==
    /\ pending[t] # NoRecord /\ attached # 0 /\ ~Full(attached)
    /\ pipes' = [pipes EXCEPT ![attached] = Accept(@, pending[t].n)]
    /\ pending' = [pending EXCEPT ![t] = NoRecord]
    /\ UNCHANGED <<phase, attached>>

(* NonBlockingQueueHandler.enqueue when there is room. *)
Enqueue(t) ==
    LET g == pending[t].pipe
    IN  /\ g # 0 /\ ~Full(g)
        /\ HandOver(t, Accept(pipes[g], pending[t].n))

(* What becomes of the report that a drop may make: none is due, five      *)
(* seconds after the last one; stderr takes it; stderr refuses it, and the *)
(* error is swallowed.                                                     *)
Reports == {"not due", "reported", "refused"}

(* MUTANT: the counter is reset though no report was due. *)
CountDropAndReset(p, report) ==
    [p EXCEPT !.dropped = 0,
              !.reported = IF report = "reported" THEN @ + p.dropped + 1 ELSE @,
              !.refused = IF report = "refused" THEN @ + p.dropped + 1 ELSE @]

(* The counter counts the drop, and starts again at 0 after a report that  *)
(* was due, whether or not it got through.                                 *)
CountDrop(p, report) ==
    [p EXCEPT !.dropped = IF report = "not due" THEN @ + 1 ELSE 0,
              !.reported = IF report = "reported" THEN @ + p.dropped + 1 ELSE @,
              !.refused = IF report = "refused" THEN @ + p.dropped + 1 ELSE @]

(* MUTANT: the record waits for room. *)
DropNever(t) == FALSE /\ UNCHANGED vars

(* MUTANT: the oldest record makes room for the new one. *)
DropOldest(t) ==
    LET g == pending[t].pipe
    IN  /\ g # 0 /\ Full(g)
        /\ \E report \in Reports :
             HandOver(t, Accept([CountDrop(pipes[g], report) EXCEPT
                                   !.queue = Tail(@)], pending[t].n))

(* ... and when there is none. *)
Drop(t) ==
    LET g == pending[t].pipe
    IN  /\ g # 0 /\ Full(g)
        /\ \E report \in Reports : HandOver(t, CountDrop(pipes[g], report))

-------------------------------------------------------------------------------
(* The listener threads *)

Take(g) ==
    /\ pipes[g].listener = "waiting"
    /\ pipes[g].queue # <<>>
    /\ pipes' = [pipes EXCEPT
         ![g].queue = Tail(@),
         ![g].inHand = Head(pipes[g].queue),
         ![g].listener = IF Head(pipes[g].queue) = Sentinel THEN "ended"
                                                            ELSE "writing"]
    /\ UNCHANGED <<phase, attached, pending>>

(* The record in hand of g passes the file handler's filter, in the        *)
(* listener's own context, and its line is in the file or not.             *)
Handled(g, ok) ==
    LET n == pipes[g].inHand
    IN  Append(pipes[g].written,
               [n |-> n, ok |-> ok,
                id |-> Stamp(pipes[g].context, pipes[g].stamped[n])])

(* Bound: the disk refuses one line of a file. *)
MayRefuse(g) == \A i \in DOMAIN pipes[g].written : pipes[g].written[i].ok

(* The file handler opens its file if it has to and writes the line, or    *)
(* fails to, which it reports on stderr and swallows.                      *)
Write(g) ==
    /\ pipes[g].listener = "writing"
    /\ \E ok \in {TRUE} \cup {~MayRefuse(g)} :
         pipes' = [pipes EXCEPT ![g].listener = "waiting",
                                ![g].inHand = 0,
                                ![g].open = TRUE,
                                ![g].written = Handled(g, ok)]
    /\ UNCHANGED <<phase, attached, pending>>

(* The file cannot be opened again: the exception ends the thread. *)
ReopenFails(g) ==
    /\ pipes[g].listener = "writing"
    /\ ~pipes[g].open
    /\ pipes' = [pipes EXCEPT ![g].listener = "ended",
                              ![g].inHand = 0,
                              ![g].written = Handled(g, FALSE)]
    /\ UNCHANGED <<phase, attached, pending>>

-------------------------------------------------------------------------------
(* shutdown_logging, step by step *)

Proceed(from, to) ==
    phase = from /\ phase' = to /\ UNCHANGED pending

(* There is no file pipeline to stop, only the console. *)
NothingToStop ==
    /\ attached = 0
    /\ Proceed("up", "down")
    /\ UNCHANGED <<attached, pipes>>

(* MUTANT: a sentinel that finds no room is dropped like a record. *)
StopListenerDrops ==
    /\ attached # 0
    /\ Proceed("up", "joining")
    /\ pipes' = [pipes EXCEPT
         ![attached].before = Len(pipes[attached].accepted),
         ![attached].queue = IF Full(attached) THEN @ ELSE Append(@, Sentinel)]
    /\ UNCHANGED attached

(* MUTANT: stop() does not wait for the thread. *)
StopListenerNoJoin ==
    /\ attached # 0
    /\ Proceed("up", "closing")
    /\ pipes' = [pipes EXCEPT
         ![attached].before = Len(pipes[attached].accepted),
         ![attached].stopFailed = Full(attached),
         ![attached].queue = IF Full(attached) THEN @ ELSE Append(@, Sentinel)]
    /\ UNCHANGED attached

(* _file_log_listener.stop(): without room for the sentinel it raises, the *)
(* exception is swallowed and the thread keeps running.                    *)
StopListener ==
    /\ attached # 0
    /\ Proceed("up", IF Full(attached) THEN "closing" ELSE "joining")
    /\ pipes' = [pipes EXCEPT
         ![attached].before = Len(pipes[attached].accepted),
         ![attached].stopFailed = Full(attached),
         ![attached].queue = IF Full(attached) THEN @ ELSE Append(@, Sentinel)]
    /\ UNCHANGED attached

Join ==
    /\ attached # 0
    /\ pipes[attached].listener = "ended"
    /\ Proceed("joining", "closing")
    /\ UNCHANGED <<attached, pipes>>

CloseFile ==
    /\ Proceed("closing", "removing")
    /\ pipes' = [pipes EXCEPT ![attached].open = FALSE]
    /\ UNCHANGED attached

RemoveHandlers ==
    /\ Proceed("removing", "down")
    /\ attached' = 0
    /\ UNCHANGED pipes

-------------------------------------------------------------------------------
Shutdown == NothingToStop \/ StopListener \/ Join \/ CloseFile \/ RemoveHandlers
Log(t)   == Enqueue(t) \/ Drop(t)
Listen(g) == Take(g) \/ Write(g) \/ ReopenFails(g)

Terminating ==
    /\ phase = "down"
    /\ \A t \in Threads : pending[t] = NoRecord
    /\ \A g \in Pipes : pipes[g].listener = "ended" \/ pipes[g].queue = <<>>
    /\ UNCHANGED vars

Next ==
    \/ Configure \/ ConfigureFails
    \/ \E t \in Threads :
        \/ \E id \in Ids \cup {NoId} : Emit(t, id)
        \/ Log(t)
    \/ \E g \in Pipes : Listen(g)
    \/ Shutdown
    \/ Terminating

Spec == Init /\ [][Next]_vars

(* A thread that logs keeps running; nothing is asked of the disk. *)
FairSpec == Spec /\ \A t \in Threads : WF_vars(Log(t))

(* The disk lets the listeners run, and a shutdown that has begun goes on. *)
DiskResponds ==
    \A g \in 1..Len(MaxRecords) : WF_vars(g \in Pipes /\ Listen(g))
ShutdownRuns == WF_vars(Join \/ CloseFile \/ RemoveHandlers)

-------------------------------------------------------------------------------
(* Properties *)

PipeType(n) ==
    [emitted: Seq(Ids \cup {NoId}), stamped: Seq(Ids \cup {NoId}),
     accepted: Seq(1..n), queue: Seq(0..n),
     written: Seq([n: 1..n, ok: BOOLEAN, id: Ids \cup {NoId}]),
     listener: {"waiting", "writing", "ended"}, context: Ids \cup {NoId},
     inHand: 0..n, open: BOOLEAN,
     dropped: Nat, reported: Nat, refused: Nat, before: Nat, stopFailed: BOOLEAN]

TypeOK ==
    /\ phase \in {"off", "up", "joining", "closing", "removing", "down"}
    /\ attached \in {0, Len(pipes)}
    /\ phase \in {"joining", "closing", "removing"} => attached # 0
    /\ Len(pipes) <= Len(MaxRecords)
    /\ \A g \in Pipes : pipes[g] \in PipeType(Len(pipes[g].emitted))
    /\ pending \in [Threads -> [pipe: 0..Len(pipes), n: Nat]]
    /\ \A t \in Threads : pending[t] # NoRecord =>
         /\ pending[t].pipe \in Pipes
         /\ pending[t].n \in 1..Len(pipes[pending[t].pipe].emitted)

(* A line of a file carries the id of the request that logged it, though   *)
(* another thread writes it and a filter of that thread, whose context has *)
(* no request, has the last word (CorrelationIDFilter, on both handlers).  *)
FileKeepsIds ==
    \A g \in Pipes : \A i \in DOMAIN pipes[g].written :
        pipes[g].written[i].id = pipes[g].emitted[pipes[g].written[i].n]

(* A file is what its queue accepted so far, in that order: no record      *)
(* twice, none of another pipeline, none skipped but for a line whose own  *)
(* write failed, also when a stop failed, the file was reopened and a new  *)
(* pipeline was configured meanwhile.                                      *)
FileIsPrefix ==
    \A g \in Pipes :
        /\ Len(pipes[g].written) <= Len(pipes[g].accepted)
        /\ \A i \in DOMAIN pipes[g].written :
             pipes[g].written[i].n = pipes[g].accepted[i]

(* A stop that succeeds leaves nothing unhandled that was accepted before  *)
(* it (the disk may have refused a line, the listener has tried), and no   *)
(* open file behind.                                                       *)
StopFlushes ==
    \A g \in Pipes : g # attached /\ ~pipes[g].stopFailed =>
        Len(pipes[g].written) >= pipes[g].before /\ ~pipes[g].open

(* Every record made is accepted, counted as dropped, reported as dropped, *)
(* or still in a thread's hands, for each pipeline.  The only drops that   *)
(* are forgotten are those of a report that was due and stderr refused.    *)
DropsAreCounted ==
    \A g \in Pipes :
        Len(pipes[g].emitted) =
            Len(pipes[g].accepted) + pipes[g].dropped + pipes[g].reported
              + pipes[g].refused
              + Cardinality({t \in Threads : pending[t].pipe = g})

(* Logging never waits, be the disk stuck or the listener gone: a thread   *)
(* that has begun to log gets done ("to avoid blocking the event loop on   *)
(* file I/O").                                                             *)
LoggingNeverBlocks ==
    \A t \in Threads : pending[t] # NoRecord ~> pending[t] = NoRecord

(* A shutdown that waits for the listener ends if the disk responds,       *)
(* whatever other threads go on logging.                                   *)
ShutdownEnds ==
    DiskResponds /\ ShutdownRuns => (phase = "joining" ~> phase = "down")

(* Not true of the code: after shutdown_logging the listener has stopped.  *)
ListenerIsStopped ==
    phase = "down" => \A g \in Pipes : pipes[g].listener = "ended"
===============================================================================
