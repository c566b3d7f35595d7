----------------------------- MODULE WorkerPipe -----------------------------
(***************************************************************************)
(* One worker unit of the proxy (runCode of WorkerUnit.hpp), its worker    *)
(* process (worker/main.cpp, worker.hpp, native.hpp) and the two pipes     *)
(* between them (util::startWorker).                                       *)
(*                                                                         *)
(* Every write() of the code is one cell of a pipe: what field it is and   *)
(* its value.  A pipe has room for a bounded number of cells and a full    *)
(* one blocks the writer.  A read takes the cell at the head as the field  *)
(* the code reads there: nothing in the bytes says which field they are,   *)
(* so the two sides must agree by their code alone.                        *)
(*                                                                         *)
(* A side writes all it has to (`usend`, `wsend`) before it reads.  The    *)
(* calls of the pool keep at most one run in progress on a unit (module    *)
(* WorkerPool); each request is one run.  The state store is external      *)
(* here: a state call is found, missing, of the wrong size, or throws.     *)
(* A function is taken to have input bytes; for one without any the worker *)
(* would not wait for a request.                                           *)
(* The branches for a command other than the ones sent (the else of        *)
(* WorkerUnit.hpp:81) are left out: Framing shows they are never taken.    *)
(***************************************************************************)
EXTENDS Naturals, Sequences

CONSTANTS
  Requests,   \* the runs, in any order
  Room,       \* the number of writes a pipe takes before it blocks the writer
  Nobody      \* no request

ASSUME PipeAssumption ==
  /\ Room \in Nat \ {0}
  /\ Nobody \notin Requests

VARIABLES
  unit,       \* where runCode is; "idle": not running; "thrown": it ended by an exception
  cur,        \* the request runCode serves
  usend,      \* the writes runCode is about to do
  uneed,      \* the fields of a state call it has still to read
  answer,     \* per request: {} or the singleton of the output it was answered with
  worker,     \* what the worker process reads next, or "run": inside the function
  alive,      \* the worker process exists
  now,        \* the request whose input the worker read last
  wsend,      \* the writes the worker is about to do
  buffer,     \* the request whose output resultBuffer holds, Nobody for the zeros
  up, down,   \* the pipes: worker to proxy, proxy to worker
  silent      \* history: the requests whose run ended without set_output

unitVars == <<unit, cur, usend, uneed, answer>>
workerVars == <<worker, alive, now, wsend, buffer, silent>>
vars == <<unitVars, workerVars, up, down>>

Cell(f, v) == [field |-> f, val |-> v]
Cmd(c) == Cell("cmd", c)

-----------------------------------------------------------------------------
(***************************************************************************)
(* Operators for single places of the code, each with the fault the        *)
(* properties are tried on.                                                *)
(***************************************************************************)
ReadFieldsFault == <<"keyLength", "valueLength", "key">>       \* mode is not read
\* runCode: the fields read after STATE_READ.
ReadFields == <<"keyLength", "valueLength", "key", "mode">>

\* runCode: the fields read after STATE_WRITE.
WriteFields == <<"keyLength", "valueLength", "key", "value", "mode">>

\* read_state_native: the writes after STATE_READ, for the function of r.
ReadCells(r) ==
  <<Cmd("READ"), Cell("keyLength", r), Cell("valueLength", r), Cell("key", r), Cell("mode", r)>>

\* write_state_native: the writes after STATE_WRITE.
WriteCells(r) ==
  <<Cmd("WRITE"), Cell("keyLength", r), Cell("valueLength", r), Cell("key", r),
    Cell("value", r), Cell("mode", r)>>

ReturnCellsFault(b) == <<Cmd("RETURN"), Cell("result", b), Cmd("READY"), Cmd("READY")>>
\* main: RETURN and the result, then READY of the next round of the loop.
ReturnCells(b) == <<Cmd("RETURN"), Cell("result", b), Cmd("READY")>>

FoundCellsFault(r) == <<Cmd("FOUND")>>             \* the value is not sent
\* runCode: a state that is found.
FoundCells(r) == <<Cmd("FOUND"), Cell("value", r)>>

AfterReadReplyFault(c) == "value"                  \* the answer is not looked at
\* read_state_native: NOT_FOUND is not followed by a value.
AfterReadReply(c) == IF c = "NOT_FOUND" THEN "run" ELSE "value"

AfterThrowFault == "idle"                          \* the unit is given back all the same
\* An exception leaves runCode and its caller before setIdle(true).
AfterThrow == "thrown"

\* A write does not block.
HasRoom(pipe) == Len(pipe) < Room

OutputFault == buffer                              \* the output is copied nowhere
\* set_output_native: std::copy into resultBuffer.
Output == now

\* A read of the unit, a read of the worker; neither returns from an empty pipe,
\* and at the end of file of a dead worker's pipe readBytes spins.
UnitReads == usend = <<>> /\ up # <<>> /\ up' = Tail(up) /\ UNCHANGED <<down, workerVars>>
WorkerReads == alive /\ wsend = <<>> /\ down # <<>> /\ down' = Tail(down) /\ UNCHANGED <<up, unitVars>>

-----------------------------------------------------------------------------
\* startWorker has made the pipes, and main is about to write READY.
Init ==
  /\ unit = "idle" /\ cur = Nobody /\ usend = <<>> /\ uneed = <<>>
  /\ answer = [r \in Requests |-> {}]
  /\ worker = "input" /\ alive = TRUE /\ now = Nobody
  /\ wsend = <<Cmd("READY")>>
  /\ buffer = Nobody /\ silent = {}
  /\ up = <<>> /\ down = <<>>

\* sendMsg: write() blocks on a full pipe; on the pipe of a dead worker it fails,
\* which nobody looks at.
SendMsg ==
  /\ usend # <<>>
  /\ usend' = Tail(usend)
  /\ IF alive THEN HasRoom(down) /\ down' = Append(down, Head(usend)) ELSE UNCHANGED down
  /\ UNCHANGED <<unit, cur, uneed, answer, workerVars, up>>

\* runCode is called on the unit: the pool has occupied it.
RunCode(r) ==
  /\ unit = "idle" /\ answer[r] = {}
  /\ unit' = "ready" /\ cur' = r
  /\ UNCHANGED <<usend, uneed, answer, workerVars, up, down>>

\* The READY of the worker is read; the input follows.
ReadReady ==
  /\ unit = "ready"
  /\ UnitReads
  /\ unit' = "loop" /\ usend' = <<Cell("input", cur)>>
  /\ UNCHANGED <<cur, uneed, answer>>

\* The command at the head of the loop.
ReadCommand ==
  /\ unit = "loop"
  /\ UnitReads
  /\ \/ Head(up).val = "RETURN" /\ unit' = "result" /\ UNCHANGED uneed
     \/ Head(up).val = "READ" /\ unit' = "read" /\ uneed' = ReadFields
     \/ Head(up).val = "WRITE" /\ unit' = "write" /\ uneed' = WriteFields
  /\ UNCHANGED <<cur, usend, answer>>

ReadField ==
  /\ uneed # <<>>
  /\ UnitReads
  /\ uneed' = Tail(uneed)
  /\ UNCHANGED <<unit, cur, usend, answer>>

\* The read of the state: found, not found (or the post to the main proxy failed),
\* found with another size than asked for, which readFromJson throws on after
\* FOUND was sent, or the store itself threw.  A mode other than 0 and 1 leaves
\* `exists` unset and the value empty: any of these.
AnswerRead ==
  /\ unit = "read" /\ uneed = <<>>
  /\ \/ unit' = "loop" /\ usend' = FoundCells(cur)
     \/ unit' = "loop" /\ usend' = <<Cmd("NOT_FOUND")>>
     \/ unit' = AfterThrow /\ usend' = <<Cmd("FOUND")>>
     \/ unit' = AfterThrow /\ UNCHANGED usend
  /\ UNCHANGED <<cur, uneed, answer, workerVars, up, down>>

AnswerWrite ==
  /\ unit = "write" /\ uneed = <<>>
  /\ \/ unit' = "loop" /\ usend' \in {<<Cmd("FOUND")>>, <<Cmd("NOT_FOUND")>>}
     \/ unit' = AfterThrow /\ UNCHANGED usend
  /\ UNCHANGED <<cur, uneed, answer, workerVars, up, down>>

\* The result is read and runCode returns; the pool's setIdle(true) follows.
ReadResult ==
  /\ unit = "result"
  /\ UnitReads
  /\ answer' = [answer EXCEPT ![cur] = {Head(up).val}]
  /\ unit' = "idle" /\ cur' = Nobody
  /\ UNCHANGED <<usend, uneed>>

-----------------------------------------------------------------------------
\* A write() of the worker; READY and RETURN through writePIPECommand.
WorkerWrite ==
  /\ alive /\ wsend # <<>> /\ HasRoom(up)
  /\ up' = Append(up, Head(wsend))
  /\ wsend' = Tail(wsend)
  /\ UNCHANGED <<unitVars, worker, alive, now, buffer, silent, down>>

\* main reads the input and calls the function.
ReadInput ==
  /\ worker = "input"
  /\ WorkerReads
  /\ worker' = "run" /\ now' = Head(down).val
  /\ silent' = silent \cup {Head(down).val}
  /\ UNCHANGED <<alive, wsend, buffer>>

SetOutput ==
  /\ alive /\ worker = "run"
  /\ buffer' = Output
  /\ silent' = silent \ {now}
  /\ UNCHANGED <<unitVars, worker, alive, now, wsend, up, down>>

\* The function calls read_state or write_state.
CallState(cells, reply) ==
  /\ alive /\ worker = "run"
  /\ wsend' = cells
  /\ worker' = reply
  /\ UNCHANGED <<unitVars, alive, now, buffer, silent, up, down>>

ReadState == CallState(ReadCells(now), "readReply")
WriteState == CallState(WriteCells(now), "writeReply")

ReadReply ==
  /\ worker \in {"readReply", "writeReply"}
  /\ WorkerReads
  /\ worker' = IF worker = "readReply" THEN AfterReadReply(Head(down).val) ELSE "run"
  /\ UNCHANGED <<alive, now, wsend, buffer, silent>>

ReadValue ==
  /\ worker = "value"
  /\ WorkerReads
  /\ worker' = "run"
  /\ UNCHANGED <<alive, now, wsend, buffer, silent>>

\* The function returns, or traps: runWasmCode prints the exception and main
\* goes on in the same way.
Return ==
  /\ alive /\ worker = "run"
  /\ wsend' = ReturnCells(buffer)
  /\ worker' = "input"
  /\ UNCHANGED <<unitVars, alive, now, buffer, silent, up, down>>

\* The process ends: an exception of a host function, the kernel's memory limit.
Die ==
  /\ alive
  /\ alive' = FALSE
  /\ UNCHANGED <<unitVars, worker, now, wsend, buffer, silent, up, down>>

-----------------------------------------------------------------------------
UnitStep == SendMsg \/ ReadReady \/ ReadCommand \/ ReadField \/ AnswerRead \/ AnswerWrite \/ ReadResult
WorkerReadStep == ReadInput \/ ReadReply \/ ReadValue

\* No step is left: the runs are over, one has thrown, or one waits for a dead worker.
Over ==
  /\ usend = <<>>
  /\ \/ unit = "idle" /\ (alive => wsend = <<>>) /\ \A r \in Requests : answer[r] # {}
     \/ unit = "thrown"
     \/ ~ alive /\ up = <<>> /\ (unit \in {"ready", "loop", "result"} \/ uneed # <<>>)
  /\ UNCHANGED vars

Next ==
  \/ \E r \in Requests : RunCode(r)
  \/ UnitStep
  \/ WorkerWrite \/ WorkerReadStep
  \/ SetOutput \/ ReadState \/ WriteState \/ Return \/ Die
  \/ Over

Spec == Init /\ [][Next]_vars

(***************************************************************************)
(* Both processes go on while they can, and a function returns or traps    *)
(* after finitely many state calls.  No fairness of RunCode and Die.       *)
(***************************************************************************)
Fairness ==
  /\ WF_vars(UnitStep)
  /\ WF_vars(WorkerWrite)
  /\ WF_vars(WorkerReadStep)
  /\ SF_vars(Return)

FairSpec == Spec /\ Fairness

-----------------------------------------------------------------------------
Places == {"idle", "ready", "loop", "read", "write", "result", "thrown"}
Inputs == {"input", "readReply", "writeReply", "value", "run"}
Fields == {"cmd", "input", "result"} \cup {WriteFields[i] : i \in 1..5}
Commands == {"READY", "RETURN", "READ", "WRITE", "FOUND", "NOT_FOUND"}
Cells == [field : Fields, val : Commands \cup Requests \cup {Nobody}]

TypeOK ==
  /\ unit \in Places
  /\ cur \in Requests \cup {Nobody}
  /\ usend \in Seq(Cells)
  /\ uneed \in Seq(Fields)
  /\ answer \in [Requests -> SUBSET (Requests \cup {Nobody})]
  /\ worker \in Inputs
  /\ alive \in BOOLEAN
  /\ now \in Requests \cup {Nobody}
  /\ wsend \in Seq(Cells)
  /\ buffer \in Requests \cup {Nobody}
  /\ up \in Seq(Cells) /\ down \in Seq(Cells)
  /\ Len(up) <= Room /\ Len(down) <= Room
  /\ silent \subseteq Requests

AwaitsCommand == uneed = <<>> /\ unit # "result"

UnitField ==
  CASE uneed # <<>> -> Head(uneed) [] AwaitsCommand -> "cmd" [] OTHER -> "result"

UnitCommands == IF unit \in {"idle", "ready"} THEN {"READY"} ELSE {"RETURN", "READ", "WRITE"}

WorkerField == CASE worker = "input" -> "input" [] worker = "value" -> "value" [] OTHER -> "cmd"

\* Whatever is at the head of a pipe is the field the other side is going to
\* read, and a command that its reader has a branch for there: the two sides
\* never get out of step, however the reads and writes interleave, and also
\* when a state is missing, a state call throws half way or the worker dies.
Framing ==
  /\ up # <<>> =>
       /\ Head(up).field = UnitField
       /\ AwaitsCommand => Head(up).val \in UnitCommands
  /\ down # <<>> /\ alive =>
       /\ Head(down).field = WorkerField
       /\ WorkerField = "cmd" => Head(down).val \in {"FOUND", "NOT_FOUND"}

\* The pipes are used in one direction at a time: while the unit has something
\* to send, or something sent is not read, the worker has nothing to send.  This
\* is why neither waits for the other with both pipes full.
HalfDuplex == usend \o down # <<>> /\ alive => wsend \o up = <<>>

\* A worker given back to the pool carries nothing over but READY: no bytes of the
\* run before are left for the next one to read.
CleanBetweenRuns == unit = "idle" /\ alive => down = <<>> /\ up \o wsend = <<Cmd("READY")>>

\* The state calls of a run are made under the id of the request whose function
\* makes them (runCode passes its request_id to readStateLock and writeStateLock).
OwnStateCalls == worker \notin {"input"} => now = cur /\ now # Nobody

\* A request is answered with the output of its own function; when that set none
\* (it trapped, say), with the output of a request answered before, or the zeros.
OwnAnswer ==
  \A r \in Requests : \A v \in answer[r] :
     v # r => r \in silent /\ (v = Nobody \/ answer[v] = {v})

\* A run ends when the function does, unless a state call throws or the process
\* dies: no lost wake-up, no circular wait, with room for a single write.
RunReturns ==
  \A r \in Requests : (cur = r) ~> (answer[r] # {} \/ unit = "thrown" \/ ~ alive)

-----------------------------------------------------------------------------
(***************************************************************************)
(* The refinement: seen from runCode's caller the pipes are a call.        *)
(***************************************************************************)
Call == INSTANCE FunctionCall WITH
  call <- cur, held <- buffer, failed <- (unit = "thrown")

CallSpec == Call!Spec

-----------------------------------------------------------------------------
(***************************************************************************)
(* The inductive invariant: what each side has still to read, wherever the *)
(* cells are, in each phase of the conversation.                           *)
(***************************************************************************)
ToUnit == up \o wsend
ToWorker == down \o usend

\* What the unit is to read after the command of a state call.
FieldsAre(cells, fields) ==
  /\ Len(cells) = Len(fields)
  /\ \A i \in 1..Len(fields) : cells[i].field = fields[i]

IsCall(cells, command, fields) ==
  /\ cells # <<>>
  /\ Head(cells) = Cmd(command)
  /\ FieldsAre(Tail(cells), fields)

WorkerGets(cells) == alive => ToWorker = cells

\* The unit is not running, or has not read READY.
Resting ==
  /\ unit \in {"idle", "ready"} /\ worker = "input" /\ uneed = <<>>
  /\ ToUnit = <<Cmd("READY")>> /\ WorkerGets(<<>>)

\* The input is on its way.
Asking ==
  /\ unit = "loop" /\ worker = "input" /\ uneed = <<>>
  /\ ToUnit = <<>> /\ WorkerGets(<<Cell("input", cur)>>)

\* The function runs.
Running ==
  /\ unit = "loop" /\ worker = "run" /\ uneed = <<>>
  /\ ToUnit = <<>> /\ WorkerGets(<<>>)

\* A state call is on its way; then its command has been read.
Calling ==
  /\ unit = "loop" /\ uneed = <<>> /\ WorkerGets(<<>>)
  /\ \/ worker = "readReply" /\ IsCall(ToUnit, "READ", ReadFields)
     \/ worker = "writeReply" /\ IsCall(ToUnit, "WRITE", WriteFields)

Serving ==
  /\ \/ unit = "read" /\ worker = "readReply"
     \/ unit = "write" /\ worker = "writeReply"
  /\ FieldsAre(ToUnit, uneed) /\ WorkerGets(<<>>)

\* The answer to it is on its way.
Replying ==
  /\ unit = "loop" /\ uneed = <<>> /\ ToUnit = <<>>
  /\ \/ worker = "readReply" /\ (WorkerGets(FoundCells(cur)) \/ WorkerGets(<<Cmd("NOT_FOUND")>>))
     \/ worker = "value" /\ WorkerGets(<<Cell("value", cur)>>)
     \/ worker = "writeReply" /\ (WorkerGets(<<Cmd("FOUND")>>) \/ WorkerGets(<<Cmd("NOT_FOUND")>>))

\* The result is on its way.
Returning ==
  /\ worker = "input" /\ uneed = <<>> /\ WorkerGets(<<>>)
  /\ \/ unit = "loop" /\ ToUnit = ReturnCells(buffer)
     \/ unit = "result" /\ ToUnit = Tail(ReturnCells(buffer))

\* The unit has left by an exception, the worker waits for ever.
Stuck ==
  /\ unit = "thrown" /\ uneed = <<>> /\ ToUnit = <<>>
  /\ \/ worker = "readReply" /\ (WorkerGets(<<>>) \/ WorkerGets(<<Cmd("FOUND")>>))
     \/ worker \in {"value", "writeReply"} /\ WorkerGets(<<>>)

Phase ==
  \/ Resting \/ Asking \/ Running \/ Calling \/ Serving \/ Replying \/ Returning \/ Stuck

\* The worker has not read the input of this run.
Fresh == worker = "input" /\ (unit \in {"idle", "ready"} \/ (unit = "loop" /\ ToUnit = <<>>))

CurRuns ==
  /\ cur = Nobody <=> unit = "idle"
  /\ cur # Nobody => answer[cur] = {}
  /\ ~ Fresh => now = cur

BufferSettled ==
  \/ buffer = Nobody
  \/ answer[buffer] = {buffer}
  \/ ~ Fresh /\ buffer = now

OutputIsHeld == ~ Fresh /\ now \notin silent => buffer = now

Outputs == CurRuns /\ BufferSettled /\ OutputIsHeld /\ OwnAnswer

IInv == TypeOK /\ Phase /\ Outputs
=============================================================================
