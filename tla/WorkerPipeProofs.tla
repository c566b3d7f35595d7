-------------------------- MODULE WorkerPipeProofs --------------------------
(***************************************************************************)
(* Proofs about WorkerPipe for any number of runs and pipes of any size:   *)
(* the invariant IInv is inductive, the safety properties the runs check   *)
(* follow from it, and the pipes implement a call (FunctionCall).          *)
(***************************************************************************)
EXTENDS WorkerPipe, SequenceTheorems, TLAPS

-----------------------------------------------------------------------------
(* Sequences: a cell moves from the writer into the pipe, or out of it.    *)

\* Writing does not change what the reader has still to read.
LEMMA MoveCell ==
  ASSUME NEW S, NEW s \in Seq(S), NEW t \in Seq(S), t # <<>>
  PROVE  Append(s, Head(t)) \o Tail(t) = s \o t
<1>1. Head(t) \in S /\ Tail(t) \in Seq(S) /\ Len(Tail(t)) = Len(t) - 1
      /\ \A i \in 1..Len(Tail(t)) : Tail(t)[i] = t[i + 1]
  BY HeadTailProperties
<1>2. Append(s, Head(t)) \in Seq(S) /\ Len(Append(s, Head(t))) = Len(s) + 1
      /\ (\A i \in 1..Len(s) : Append(s, Head(t))[i] = s[i]) /\ Append(s, Head(t))[Len(s) + 1] = Head(t)
  BY <1>1, AppendProperties
<1>3. Len(t) \in Nat \ {0} /\ Len(s) \in Nat /\ Head(t) = t[1]
  BY EmptySeq, LenProperties
<1> DEFINE l == Append(s, Head(t)) \o Tail(t)
           r == s \o t
<1>4. l \in Seq(S) /\ Len(l) = Len(s) + 1 + Len(Tail(t))
      /\ \A i \in 1..Len(s) + 1 + Len(Tail(t)) :
            l[i] = IF i <= Len(s) + 1 THEN Append(s, Head(t))[i] ELSE Tail(t)[i - (Len(s) + 1)]
  BY <1>1, <1>2, ConcatProperties
<1>5. r \in Seq(S) /\ Len(r) = Len(s) + Len(t)
      /\ \A i \in 1..Len(s) + Len(t) : r[i] = IF i <= Len(s) THEN s[i] ELSE t[i - Len(s)]
  BY ConcatProperties
<1> HIDE DEF l, r
<1>6. Len(l) = Len(r)  BY <1>1, <1>3, <1>4, <1>5
<1>7. ASSUME NEW i \in 1..Len(l) PROVE l[i] = r[i]
  <2>1. CASE i <= Len(s)
    <3>1. l[i] = Append(s, Head(t))[i]  BY <2>1, <1>1, <1>3, <1>4
    <3>2. r[i] = s[i]  BY <2>1, <1>3, <1>5, <1>6
    <3>3. i \in 1..Len(s)  BY <2>1, <1>1, <1>3, <1>4
    <3> QED BY <3>1, <3>2, <3>3, <1>2
  <2>2. CASE i = Len(s) + 1  BY <2>2, <1>1, <1>2, <1>3, <1>4, <1>5, <1>6
  <2>3. CASE i > Len(s) + 1
    <3>1. i - (Len(s) + 1) \in 1..Len(Tail(t)) /\ l[i] = Tail(t)[i - (Len(s) + 1)]
      BY <2>3, <1>1, <1>3, <1>4
    <3>2. l[i] = t[i - (Len(s) + 1) + 1]  BY <3>1, <1>1
    <3>3. r[i] = t[i - Len(s)]  BY <2>3, <1>3, <1>5, <1>6
    <3> QED BY <3>2, <3>3, <2>3, <1>3
  <2> QED BY <2>1, <2>2, <2>3, <1>3
<1>8. l = r  BY <1>4, <1>5, <1>6, <1>7, SeqEqual
<1> QED BY <1>8 DEF l, r

\* Reading takes the head of what the reader has still to read.
LEMMA TakeCell ==
  ASSUME NEW S, NEW s \in Seq(S), NEW t \in Seq(S), s # <<>>
  PROVE  s \o t # <<>> /\ Head(s \o t) = Head(s) /\ Tail(s) \o t = Tail(s \o t)
<1>1. Head(s) \in S /\ Tail(s) \in Seq(S) /\ Len(Tail(s)) = Len(s) - 1
      /\ \A i \in 1..Len(Tail(s)) : Tail(s)[i] = s[i + 1]
  BY HeadTailProperties
<1>2. Len(s) \in Nat \ {0} /\ Len(t) \in Nat /\ Head(s) = s[1]
  BY EmptySeq, LenProperties
<1> DEFINE u == s \o t
           l == Tail(s) \o t
<1>3. u \in Seq(S) /\ Len(u) = Len(s) + Len(t)
      /\ \A i \in 1..Len(s) + Len(t) : u[i] = IF i <= Len(s) THEN s[i] ELSE t[i - Len(s)]
  BY ConcatProperties
<1>4. l \in Seq(S) /\ Len(l) = Len(Tail(s)) + Len(t)
      /\ \A i \in 1..Len(Tail(s)) + Len(t) :
            l[i] = IF i <= Len(Tail(s)) THEN Tail(s)[i] ELSE t[i - Len(Tail(s))]
  BY <1>1, ConcatProperties
<1> HIDE DEF u, l
<1>5. u # <<>>  BY <1>2, <1>3, EmptySeq
<1>6. Tail(u) \in Seq(S) /\ Len(Tail(u)) = Len(u) - 1
      /\ \A i \in 1..Len(Tail(u)) : Tail(u)[i] = u[i + 1]
  BY ONLY <1>5, <1>3, HeadTailProperties
<1>7. Head(u) = Head(s)  BY <1>2, <1>3, <1>5
<1>8. Len(l) = Len(Tail(u))  BY <1>1, <1>2, <1>3, <1>4, <1>6
<1>9. ASSUME NEW i \in 1..Len(l) PROVE l[i] = Tail(u)[i]
  <2>1. Tail(u)[i] = u[i + 1] /\ i + 1 \in 1..Len(u)  BY <1>2, <1>3, <1>6, <1>8
  <2>2. CASE i <= Len(Tail(s))  BY <2>1, <2>2, <1>1, <1>2, <1>3, <1>4
  <2>3. CASE i > Len(Tail(s))
    <3>1. l[i] = t[i - Len(Tail(s))]  BY <2>3, <1>1, <1>2, <1>4
    <3>2. u[i + 1] = t[i + 1 - Len(s)]  BY <2>1, <2>3, <1>1, <1>2, <1>3
    <3> QED BY <3>1, <3>2, <2>1, <1>1, <1>2
  <2>4. Len(Tail(s)) \in Int /\ i \in Int  BY <1>1, <1>2
  <2>5. i <= Len(Tail(s)) \/ i > Len(Tail(s))  BY ONLY <2>4
  <2> QED BY ONLY <2>2, <2>3, <2>5
<1>10. l = Tail(u)  BY <1>4, <1>6, <1>8, <1>9, SeqEqual
<1> QED BY <1>5, <1>7, <1>10 DEF u, l

-----------------------------------------------------------------------------
(* The cells and the lists of fields.                                      *)

LEMMA CellsOK ==
  ASSUME NEW r \in Requests \cup {Nobody}
  PROVE  /\ ReadCells(r) \in Seq(Cells) /\ WriteCells(r) \in Seq(Cells)
         /\ ReturnCells(r) \in Seq(Cells) /\ FoundCells(r) \in Seq(Cells)
         /\ Cell("input", r) \in Cells /\ \A c \in Commands : Cmd(c) \in Cells
         /\ ReadFields \in Seq(Fields) /\ WriteFields \in Seq(Fields)
<1>1. \A f \in Fields : \A v \in Commands \cup Requests \cup {Nobody} : Cell(f, v) \in Cells
  BY DEF Cell, Cells
<1>2. {"cmd", "input", "result", "keyLength", "valueLength", "key", "value", "mode"} \subseteq Fields
  BY DEF Fields, WriteFields
<1>3. \A c \in Commands : Cmd(c) \in Cells  BY <1>1, <1>2 DEF Cmd
<1>4. {Cmd("READ"), Cmd("WRITE"), Cmd("RETURN"), Cmd("READY"), Cmd("FOUND")} \subseteq Cells
  BY <1>3 DEF Commands
<1>5. {Cell("input", r), Cell("result", r), Cell("keyLength", r), Cell("valueLength", r),
       Cell("key", r), Cell("value", r), Cell("mode", r)} \subseteq Cells
  BY <1>1, <1>2
<1> HIDE DEF Cells, Fields
<1>6. ReadCells(r) \in Seq(Cells)  BY <1>4, <1>5 DEF ReadCells
<1>7. WriteCells(r) \in Seq(Cells)  BY <1>4, <1>5 DEF WriteCells
<1>8. ReturnCells(r) \in Seq(Cells) /\ FoundCells(r) \in Seq(Cells)
  BY <1>4, <1>5 DEF ReturnCells, FoundCells
<1>9. ReadFields \in Seq(Fields) /\ WriteFields \in Seq(Fields)
  BY <1>2 DEF ReadFields, WriteFields
<1> QED BY <1>3, <1>5, <1>6, <1>7, <1>8, <1>9

\* The writes of a state call are the command and the fields runCode reads.
LEMMA CallsAgree ==
  ASSUME NEW r \in Requests \cup {Nobody}
  PROVE  IsCall(ReadCells(r), "READ", ReadFields) /\ IsCall(WriteCells(r), "WRITE", WriteFields)
<1>1. IsCall(ReadCells(r), "READ", ReadFields)
  <2> DEFINE c == <<Cell("keyLength", r), Cell("valueLength", r), Cell("key", r), Cell("mode", r)>>
  <2>1. Tail(ReadCells(r)) = c  BY DEF ReadCells
  <2>2. \A f : Cell(f, r).field = f  BY DEF Cell
  <2>3. c[1].field = ReadFields[1] /\ c[2].field = ReadFields[2] /\ c[3].field = ReadFields[3] /\ c[4].field = ReadFields[4]
    BY <2>2 DEF ReadFields
  <2>4. Len(c) = 4 /\ Len(ReadFields) = 4  BY DEF ReadFields
  <2> HIDE DEF c
  <2>5. \A i \in 1..4 : i = 1 \/ i = 2 \/ i = 3 \/ i = 4  OBVIOUS
  <2>6. \A i \in 1..4 : c[i].field = ReadFields[i]  BY <2>3, <2>5
  <2>7. FieldsAre(c, ReadFields)  BY <2>4, <2>6 DEF FieldsAre
  <2> QED BY <2>1, <2>7 DEF IsCall, ReadCells
<1>2. IsCall(WriteCells(r), "WRITE", WriteFields)
  <2> DEFINE c == <<Cell("keyLength", r), Cell("valueLength", r), Cell("key", r), Cell("value", r),
                   Cell("mode", r)>>
  <2>1. Tail(WriteCells(r)) = c  BY DEF WriteCells
  <2>2. \A f : Cell(f, r).field = f  BY DEF Cell
  <2>3. c[1].field = WriteFields[1] /\ c[2].field = WriteFields[2] /\ c[3].field = WriteFields[3]
        /\ c[4].field = WriteFields[4] /\ c[5].field = WriteFields[5]
    BY <2>2 DEF WriteFields
  <2>4. Len(c) = 5 /\ Len(WriteFields) = 5  BY DEF WriteFields
  <2> HIDE DEF c
  <2>5. \A i \in 1..5 : i = 1 \/ i = 2 \/ i = 3 \/ i = 4 \/ i = 5  OBVIOUS
  <2>6. \A i \in 1..5 : c[i].field = WriteFields[i]  BY <2>3, <2>5
  <2>7. FieldsAre(c, WriteFields)  BY <2>4, <2>6 DEF FieldsAre
  <2> QED BY <2>1, <2>7 DEF IsCall, WriteCells
<1> QED BY <1>1, <1>2

\* Reading the field at the head leaves the fields after it.
LEMMA FieldsShrink ==
  ASSUME NEW cells \in Seq(Cells), NEW fields \in Seq(Fields), FieldsAre(cells, fields),
         fields # <<>>
  PROVE  cells # <<>> /\ Head(cells).field = Head(fields)
         /\ FieldsAre(Tail(cells), Tail(fields))
<1>1. Len(fields) \in Nat \ {0} /\ Len(cells) = Len(fields)  BY EmptySeq DEF FieldsAre
<1>2. cells # <<>>  BY <1>1
<1>3. Head(cells) = cells[1] /\ Head(fields) = fields[1]  BY <1>1
<1>4. Len(Tail(cells)) = Len(cells) - 1
      /\ \A i \in 1..Len(Tail(cells)) : Tail(cells)[i] = cells[i + 1]
  BY ONLY <1>2, cells \in Seq(Cells), HeadTailProperties
<1>5. Len(Tail(fields)) = Len(fields) - 1
      /\ \A i \in 1..Len(Tail(fields)) : Tail(fields)[i] = fields[i + 1]
  BY ONLY fields # <<>>, fields \in Seq(Fields), HeadTailProperties
<1>6. \A i \in 1..Len(Tail(fields)) : Tail(cells)[i].field = Tail(fields)[i]
  BY <1>1, <1>4, <1>5 DEF FieldsAre
<1> QED BY <1>1, <1>2, <1>3, <1>4, <1>5, <1>6 DEF FieldsAre

-----------------------------------------------------------------------------
(* Reads and writes, in terms of what the other side has still to read.    *)

LEMMA UnitReadsCell ==
  ASSUME TypeOK, UnitReads
  PROVE  /\ ToUnit # <<>> /\ Head(up) = Head(ToUnit) /\ Head(up) \in Cells
         /\ ToUnit' = Tail(ToUnit) /\ ToUnit \in Seq(Cells)
         /\ up' \in Seq(Cells) /\ Len(up') <= Room
<1>1. up \in Seq(Cells) /\ wsend \in Seq(Cells) /\ up # <<>> /\ Len(up) <= Room
      /\ up' = Tail(up) /\ wsend' = wsend
  BY DEF TypeOK, UnitReads, workerVars
<1> HIDE DEF Cells
<1>2. up \o wsend # <<>> /\ Head(up \o wsend) = Head(up) /\ Tail(up) \o wsend = Tail(up \o wsend)
  BY ONLY <1>1, TakeCell
<1>3. Head(up) \in Cells /\ Tail(up) \in Seq(Cells) /\ Len(Tail(up)) = Len(up) - 1
  BY ONLY <1>1, HeadTailProperties
<1>4. up \o wsend \in Seq(Cells) /\ Len(up) \in Nat  BY ONLY <1>1, ConcatProperties, LenProperties
<1> QED BY <1>1, <1>2, <1>3, <1>4, PipeAssumption DEF ToUnit

LEMMA WorkerReadsCell ==
  ASSUME TypeOK, WorkerReads
  PROVE  /\ ToWorker # <<>> /\ Head(down) = Head(ToWorker) /\ Head(down) \in Cells
         /\ ToWorker' = Tail(ToWorker) /\ ToWorker \in Seq(Cells)
         /\ down' \in Seq(Cells) /\ Len(down') <= Room
<1>1. down \in Seq(Cells) /\ usend \in Seq(Cells) /\ down # <<>> /\ Len(down) <= Room
      /\ down' = Tail(down) /\ usend' = usend
  BY DEF TypeOK, WorkerReads, unitVars
<1> HIDE DEF Cells
<1>2. down \o usend # <<>> /\ Head(down \o usend) = Head(down)
      /\ Tail(down) \o usend = Tail(down \o usend)
  BY ONLY <1>1, TakeCell
<1>3. Head(down) \in Cells /\ Tail(down) \in Seq(Cells) /\ Len(Tail(down)) = Len(down) - 1
  BY ONLY <1>1, HeadTailProperties
<1>4. down \o usend \in Seq(Cells) /\ Len(down) \in Nat  BY ONLY <1>1, ConcatProperties, LenProperties
<1> QED BY <1>1, <1>2, <1>3, <1>4, PipeAssumption DEF ToWorker

\* With nothing on its way to the worker, what the unit writes next is all there is.
LEMMA UnitStartsWriting ==
  ASSUME TypeOK, ToWorker = <<>>, down' = down, usend' \in Seq(Cells)
  PROVE  ToWorker' = usend'
<1> HIDE DEF Cells
<1>1. down \in Seq(Cells) /\ usend \in Seq(Cells)  BY DEF TypeOK
<1>2. down = <<>>  BY ONLY <1>1, ToWorker = <<>>, ConcatEqualIffEmpty DEF ToWorker
<1> QED BY <1>2, ConcatEmptySeq DEF ToWorker

LEMMA WorkerStartsWriting ==
  ASSUME TypeOK, ToUnit = <<>>, up' = up, wsend' \in Seq(Cells)
  PROVE  ToUnit' = wsend'
<1> HIDE DEF Cells
<1>1. up \in Seq(Cells) /\ wsend \in Seq(Cells)  BY DEF TypeOK
<1>2. up = <<>>  BY ONLY <1>1, ToUnit = <<>>, ConcatEqualIffEmpty DEF ToUnit
<1> QED BY <1>2, ConcatEmptySeq DEF ToUnit

\* The outputs and answers do not change while the conversation goes on.
LEMMA OutputsStay ==
  ASSUME Outputs, UNCHANGED <<cur, answer, now, buffer, silent>>,
         unit' = "idle" <=> unit = "idle", Fresh' <=> Fresh
  PROVE  Outputs'
<1>1. CurRuns'  BY DEF Outputs, CurRuns
<1>2. BufferSettled' /\ OutputIsHeld' /\ OwnAnswer'
  BY DEF Outputs, BufferSettled, OutputIsHeld, OwnAnswer
<1> QED BY <1>1, <1>2 DEF Outputs

-----------------------------------------------------------------------------
(* The initial state, and one lemma per action.                            *)

\* A new worker is about to write READY.
LEMMA InitIInv == Init => IInv
<1> SUFFICES ASSUME Init PROVE IInv  OBVIOUS
<1>1. wsend \in Seq(Cells) /\ <<>> \in Seq(Cells) /\ <<>> \in Seq(Fields)
  <2>1. Cmd("READY") \in Cells  BY CellsOK DEF Commands
  <2> HIDE DEF Cells, Fields
  <2> QED BY <2>1 DEF Init
<1>2. TypeOK  BY <1>1, PipeAssumption DEF Init, TypeOK, Places, Inputs
<1>3. ToUnit = <<Cmd("READY")>> /\ ToWorker = <<>>
  BY <1>1, ConcatEmptySeq DEF ToUnit, ToWorker, Init
<1>4. Resting  BY <1>3 DEF Resting, Init, WorkerGets
<1>5. Outputs
  BY DEF Init, Outputs, CurRuns, BufferSettled, OutputIsHeld, OwnAnswer, Fresh
<1> QED BY <1>2, <1>4, <1>5 DEF IInv, Phase

\* The unit writes, or fails to write to a dead worker.
LEMMA SendMsgInv == ASSUME IInv, SendMsg PROVE IInv'
<1> USE DEF IInv
<1>1. usend \in Seq(Cells) /\ down \in Seq(Cells) /\ usend # <<>> /\ usend' = Tail(usend)
  BY DEF TypeOK, SendMsg
<1>2. Head(usend) \in Cells /\ Tail(usend) \in Seq(Cells)
  BY ONLY <1>1, HeadTailProperties
<1>3. alive => ToWorker' = ToWorker
  <2> HIDE DEF Cells
  <2>1. Append(down, Head(usend)) \o Tail(usend) = down \o usend  BY ONLY <1>1, MoveCell
  <2> QED BY <1>1, <2>1 DEF SendMsg, ToWorker
<1>4. ToUnit' = ToUnit /\ UNCHANGED <<unit, cur, uneed, answer, worker, alive, now, buffer, silent>>
  BY DEF SendMsg, ToUnit, workerVars
<1>5. TypeOK'
  <2>1. down' \in Seq(Cells) /\ Len(down') <= Room
    <3>1. CASE alive
      <4>1. down' = Append(down, Head(usend)) /\ Len(down) < Room  BY <3>1 DEF SendMsg, HasRoom
      <4>2. Append(down, Head(usend)) \in Seq(Cells)
            /\ Len(Append(down, Head(usend))) = Len(down) + 1 /\ Len(down) \in Nat
        BY ONLY <1>1, <1>2, AppendProperties, LenProperties
      <4> QED BY <4>1, <4>2, PipeAssumption
    <3>2. CASE ~ alive  BY <3>2 DEF SendMsg, TypeOK
    <3> QED BY <3>1, <3>2
  <2> QED BY <1>1, <1>2, <1>4, <2>1 DEF TypeOK, SendMsg, workerVars
<1>6. Phase'
  <2>1. \A cells : WorkerGets(cells) => WorkerGets(cells)'  BY <1>3, <1>4 DEF WorkerGets
  <2> QED
    BY <1>4, <2>1 DEF Phase, Resting, Asking, Running, Calling, Serving, Replying, Returning, Stuck
<1>7. Fresh' <=> Fresh  BY <1>4 DEF Fresh
<1>8. Outputs'  BY <1>4, <1>7, OutputsStay
<1> QED BY <1>5, <1>6, <1>8

\* runCode is called on a unit nobody uses.
LEMMA RunCodeInv == ASSUME IInv, NEW r \in Requests, RunCode(r) PROVE IInv'
<1> USE DEF IInv
<1>1. UNCHANGED <<usend, uneed, answer, worker, alive, now, wsend, buffer, silent, up, down>>
      /\ unit = "idle" /\ unit' = "ready" /\ cur' = r /\ answer[r] = {}
  BY DEF RunCode, workerVars
<1>2. TypeOK'  BY <1>1 DEF TypeOK, Places
<1>3. Resting  BY <1>1 DEF Phase, Resting, Asking, Running, Calling, Serving, Replying, Returning, Stuck
<1>4. Resting'  BY <1>1, <1>3 DEF Resting, WorkerGets, ToUnit, ToWorker
<1>5. Fresh /\ Fresh'  BY <1>3, <1>4 DEF Resting, Fresh
<1>6. Outputs'
  BY <1>1, <1>5, PipeAssumption DEF Outputs, CurRuns, BufferSettled, OutputIsHeld, OwnAnswer
<1> QED BY <1>2, <1>4, <1>6 DEF Phase

\* The unit has READY and is about to write the input.
LEMMA ReadReadyInv == ASSUME IInv, ReadReady PROVE IInv'
<1> USE DEF IInv
<1>1. UNCHANGED <<uneed, cur, answer, worker, alive, now, wsend, buffer, silent, down>>
      /\ unit = "ready" /\ unit' = "loop" /\ usend' = <<Cell("input", cur)>> /\ UnitReads
  BY DEF ReadReady, UnitReads, workerVars
<1>2. Resting  BY <1>1 DEF Phase, Resting, Asking, Running, Calling, Serving, Replying, Returning, Stuck
<1>3. usend' \in Seq(Cells)
  <2>1. Cell("input", cur) \in Cells  BY CellsOK DEF TypeOK
  <2> HIDE DEF Cells
  <2> QED BY <1>1, <2>1
<1>4. TypeOK'  BY <1>1, <1>3, UnitReadsCell DEF TypeOK, Places
<1>5. ToUnit' = <<>>  BY <1>1, <1>2, UnitReadsCell DEF Resting
<1>6. Asking'
  <2>1. alive => ToWorker' = usend'  BY <1>1, <1>2, <1>3, UnitStartsWriting DEF Resting, WorkerGets
  <2> QED BY <1>1, <1>2, <1>5, <2>1 DEF Asking, Resting, WorkerGets
<1>7. Fresh' <=> Fresh  BY <1>1, <1>2, <1>5, <1>6 DEF Fresh, Resting
<1>8. Outputs'  BY <1>1, <1>7, OutputsStay
<1> QED BY <1>4, <1>6, <1>8 DEF Phase

\* The unit has the command of a state call, or RETURN.
LEMMA ReadCommandInv == ASSUME IInv, ReadCommand PROVE IInv'
<1> USE DEF IInv
<1>1. UNCHANGED <<usend, cur, answer, worker, alive, now, wsend, buffer, silent, down>>
      /\ unit = "loop" /\ UnitReads /\ usend = <<>>
  BY DEF ReadCommand, UnitReads, workerVars
<1>2. ToUnit # <<>> /\ Head(up) = Head(ToUnit) /\ ToUnit' = Tail(ToUnit)
  BY <1>1, UnitReadsCell
<1>3. Calling \/ (Returning /\ ToUnit = ReturnCells(buffer))
  BY <1>1, <1>2 DEF Phase, Resting, Asking, Running, Calling, Serving, Replying, Returning, Stuck
<1>4. \A cells : WorkerGets(cells) => WorkerGets(cells)'  BY <1>1 DEF WorkerGets, ToWorker
<1>5. \A c \in {"READ", "WRITE", "RETURN"} : Cmd(c).val = c  BY DEF Cmd, Cell
<1>6. CASE Calling
  <2>1. Serving' /\ uneed' \in Seq(Fields) /\ unit' \in {"read", "write"} /\ worker # "input"
    <3>1. ReadFields \in Seq(Fields) /\ WriteFields \in Seq(Fields)  BY CellsOK
    <3>2. CASE worker = "readReply" /\ IsCall(ToUnit, "READ", ReadFields)
      <4>1. unit' = "read" /\ uneed' = ReadFields  BY <1>2, <1>5, <3>2 DEF IsCall, ReadCommand
      <4>2. Serving'  BY <1>1, <1>2, <1>4, <1>6, <3>2, <4>1 DEF Serving, IsCall, Calling
      <4> QED BY <3>1, <3>2, <4>1, <4>2
    <3>3. CASE worker = "writeReply" /\ IsCall(ToUnit, "WRITE", WriteFields)
      <4>1. unit' = "write" /\ uneed' = WriteFields  BY <1>2, <1>5, <3>3 DEF IsCall, ReadCommand
      <4>2. Serving'  BY <1>1, <1>2, <1>4, <1>6, <3>3, <4>1 DEF Serving, IsCall, Calling
      <4> QED BY <3>1, <3>3, <4>1, <4>2
    <3> QED BY <1>6, <3>2, <3>3 DEF Calling
  <2>2. TypeOK'  BY <1>1, <2>1, UnitReadsCell DEF TypeOK, Places
  <2>3. Outputs'  BY <1>1, <2>1, OutputsStay DEF Fresh
  <2> QED BY <2>1, <2>2, <2>3 DEF Phase
<1>7. CASE Returning /\ ToUnit = ReturnCells(buffer)
  <2>1. unit' = "result" /\ uneed' = uneed
    BY <1>2, <1>5, <1>7 DEF ReturnCells, ReadCommand
  <2>2. Returning'
    <3>1. ReturnCells(buffer)' = ReturnCells(buffer)  BY <1>1 DEF ReturnCells
    <3> QED BY <1>1, <1>2, <1>4, <1>7, <2>1, <3>1 DEF Returning
  <2>3. TypeOK'  BY <1>1, <2>1, UnitReadsCell DEF TypeOK, Places
  <2>4. ~ Fresh /\ ~ Fresh'  BY <1>1, <1>2, <2>1 DEF Fresh
  <2>5. Outputs'  BY <1>1, <2>1, <2>4, OutputsStay
  <2> QED BY <2>2, <2>3, <2>5 DEF Phase
<1> QED BY <1>3, <1>6, <1>7

\* The unit has a field of a state call.
LEMMA ReadFieldInv == ASSUME IInv, ReadField PROVE IInv'
<1> USE DEF IInv
<1>1. UNCHANGED <<unit, usend, cur, answer, worker, alive, now, wsend, buffer, silent, down>>
      /\ uneed # <<>> /\ uneed' = Tail(uneed) /\ UnitReads
  BY DEF ReadField, UnitReads, workerVars
<1>2. ToUnit' = Tail(ToUnit) /\ ToUnit \in Seq(Cells)  BY <1>1, UnitReadsCell
<1>3. Serving  BY <1>1 DEF Phase, Resting, Asking, Running, Calling, Serving, Replying, Returning, Stuck
<1>4. uneed' \in Seq(Fields)
  <2>1. uneed \in Seq(Fields)  BY DEF TypeOK
  <2> QED BY ONLY <1>1, <2>1, HeadTailProperties
<1>5. FieldsAre(Tail(ToUnit), Tail(uneed))
  BY <1>1, <1>2, <1>3, FieldsShrink DEF Serving, TypeOK
<1>6. Serving'  BY <1>1, <1>2, <1>3, <1>5 DEF Serving, WorkerGets, ToWorker
<1>7. TypeOK'  BY <1>1, <1>4, UnitReadsCell DEF TypeOK
<1>8. Outputs'  BY <1>1, <1>3, OutputsStay DEF Fresh, Serving
<1> QED BY <1>6, <1>7, <1>8 DEF Phase

\* A state call is answered, or throws, with all its fields read.
LEMMA AnswerReadInv == ASSUME IInv, AnswerRead PROVE IInv'
<1> USE DEF IInv
<1>1. UNCHANGED <<uneed, cur, answer, worker, alive, now, wsend, buffer, silent, up, down>>
      /\ unit = "read" /\ uneed = <<>>
  BY DEF AnswerRead, workerVars
<1>2. Serving /\ worker = "readReply" /\ ToUnit' = ToUnit
  BY <1>1 DEF Phase, Resting, Asking, Running, Calling, Serving, Replying, Returning, Stuck, ToUnit
<1>3. ToUnit = <<>>
  <2>1. ToUnit \in Seq(Cells)
    <3> HIDE DEF Cells
    <3>1. up \in Seq(Cells) /\ wsend \in Seq(Cells)  BY DEF TypeOK
    <3> QED BY ONLY <3>1, ConcatProperties DEF ToUnit
  <2>2. Len(ToUnit) = 0  BY <1>1, <1>2 DEF Serving, FieldsAre
  <2> QED BY <2>1, <2>2, EmptySeq
<1>4. FoundCells(cur) \in Seq(Cells) /\ <<Cmd("NOT_FOUND")>> \in Seq(Cells) /\ <<Cmd("FOUND")>> \in Seq(Cells)
  <2>1. FoundCells(cur) \in Seq(Cells) /\ Cmd("NOT_FOUND") \in Cells /\ Cmd("FOUND") \in Cells
    BY CellsOK DEF TypeOK, Commands
  <2> HIDE DEF Cells
  <2> QED BY <2>1
<1>5. \/ unit' = "loop" /\ usend' = FoundCells(cur)
      \/ unit' = "loop" /\ usend' = <<Cmd("NOT_FOUND")>>
      \/ unit' = "thrown" /\ usend' = <<Cmd("FOUND")>>
      \/ unit' = "thrown" /\ usend' = usend
  BY DEF AnswerRead, AfterThrow
<1>6. TypeOK'  BY <1>1, <1>4, <1>5 DEF TypeOK, Places
<1>7. alive => ToWorker = <<>>  BY <1>2 DEF Serving, WorkerGets
<1>8. Phase'
  <2>1. CASE unit' = "loop" /\ usend' = FoundCells(cur)
    <3>1. alive => ToWorker' = usend'
      BY <1>1, <1>4, <1>7, <2>1, UnitStartsWriting
    <3>2. FoundCells(cur)' = FoundCells(cur)  BY <1>1 DEF FoundCells
    <3>3. Replying'  BY <1>1, <1>2, <1>3, <2>1, <3>1, <3>2 DEF Replying, WorkerGets
    <3> QED BY <3>3 DEF Phase
  <2>2. CASE unit' = "loop" /\ usend' = <<Cmd("NOT_FOUND")>>
    <3>1. alive => ToWorker' = usend'
      BY <1>1, <1>4, <1>7, <2>2, UnitStartsWriting
    <3>2. Replying'  BY <1>1, <1>2, <1>3, <2>2, <3>1 DEF Replying, WorkerGets
    <3> QED BY <3>2 DEF Phase
  <2>3. CASE unit' = "thrown" /\ usend' = <<Cmd("FOUND")>>
    <3>1. alive => ToWorker' = usend'
      BY <1>1, <1>4, <1>7, <2>3, UnitStartsWriting
    <3>2. Stuck'  BY <1>1, <1>2, <1>3, <2>3, <3>1 DEF Stuck, WorkerGets
    <3> QED BY <3>2 DEF Phase
  <2>4. CASE unit' = "thrown" /\ usend' = usend
    <3>1. Stuck'  BY <1>1, <1>2, <1>3, <1>7, <2>4 DEF Stuck, WorkerGets, ToWorker
    <3> QED BY <3>1 DEF Phase
  <2> QED BY <1>5, <2>1, <2>2, <2>3, <2>4
<1>9. Outputs'  BY <1>1, <1>2, <1>5, OutputsStay DEF Fresh
<1> QED BY <1>6, <1>8, <1>9

LEMMA AnswerWriteInv == ASSUME IInv, AnswerWrite PROVE IInv'
<1> USE DEF IInv
<1>1. UNCHANGED <<uneed, cur, answer, worker, alive, now, wsend, buffer, silent, up, down>>
      /\ unit = "write" /\ uneed = <<>>
  BY DEF AnswerWrite, workerVars
<1>2. Serving /\ worker = "writeReply" /\ ToUnit' = ToUnit
  BY <1>1 DEF Phase, Resting, Asking, Running, Calling, Serving, Replying, Returning, Stuck, ToUnit
<1>3. ToUnit = <<>>
  <2>1. ToUnit \in Seq(Cells)
    <3> HIDE DEF Cells
    <3>1. up \in Seq(Cells) /\ wsend \in Seq(Cells)  BY DEF TypeOK
    <3> QED BY ONLY <3>1, ConcatProperties DEF ToUnit
  <2>2. Len(ToUnit) = 0  BY <1>1, <1>2 DEF Serving, FieldsAre
  <2> QED BY <2>1, <2>2, EmptySeq
<1>4. \A c \in {"FOUND", "NOT_FOUND"} : <<Cmd(c)>> \in Seq(Cells)
  <2>1. \A c \in {"FOUND", "NOT_FOUND"} : Cmd(c) \in Cells  BY CellsOK DEF TypeOK, Commands
  <2> HIDE DEF Cells
  <2> QED BY <2>1
<1>5. \/ unit' = "loop" /\ usend' \in {<<Cmd("FOUND")>>, <<Cmd("NOT_FOUND")>>}
      \/ unit' = "thrown" /\ usend' = usend
  BY DEF AnswerWrite, AfterThrow
<1>6. TypeOK'  BY <1>1, <1>4, <1>5 DEF TypeOK, Places
<1>7. alive => ToWorker = <<>>  BY <1>2 DEF Serving, WorkerGets
<1>8. Phase'
  <2>1. CASE unit' = "loop" /\ usend' \in {<<Cmd("FOUND")>>, <<Cmd("NOT_FOUND")>>}
    <3>1. alive => ToWorker' = usend'
      BY <1>1, <1>4, <1>7, <2>1, UnitStartsWriting
    <3>2. Replying'  BY <1>1, <1>2, <1>3, <2>1, <3>1 DEF Replying, WorkerGets
    <3> QED BY <3>2 DEF Phase
  <2>2. CASE unit' = "thrown" /\ usend' = usend
    <3>1. Stuck'  BY <1>1, <1>2, <1>3, <1>7, <2>2 DEF Stuck, WorkerGets, ToWorker
    <3> QED BY <3>1 DEF Phase
  <2> QED BY <1>5, <2>1, <2>2
<1>9. Outputs'  BY <1>1, <1>2, <1>5, OutputsStay DEF Fresh
<1> QED BY <1>6, <1>8, <1>9

\* The unit has the result: the run is answered with what the buffer holds.
LEMMA ReadResultInv == ASSUME IInv, ReadResult PROVE IInv' /\ Head(up).val = buffer
<1> USE DEF IInv
<1>1. UNCHANGED <<uneed, usend, worker, alive, now, wsend, buffer, silent, down>>
      /\ unit = "result" /\ unit' = "idle" /\ cur' = Nobody
      /\ answer' = [answer EXCEPT ![cur] = {Head(up).val}] /\ UnitReads
  BY DEF ReadResult, UnitReads, workerVars
<1>2. Returning /\ ToUnit = Tail(ReturnCells(buffer))
  BY <1>1 DEF Phase, Resting, Asking, Running, Calling, Serving, Replying, Returning, Stuck
<1>3. Tail(ReturnCells(buffer)) = <<Cell("result", buffer), Cmd("READY")>>  BY DEF ReturnCells
<1>4. Head(up) = Cell("result", buffer) /\ ToUnit' = <<Cmd("READY")>>
  <2>1. Head(up) = Head(ToUnit) /\ ToUnit' = Tail(ToUnit)  BY <1>1, UnitReadsCell
  <2>2. ToUnit = <<Cell("result", buffer), Cmd("READY")>>  BY <1>2, <1>3
  <2> QED BY ONLY <2>1, <2>2
<1>5. Head(up).val = buffer  BY <1>4 DEF Cell
<1>6. cur \in Requests /\ now = cur /\ answer[cur] = {} /\ worker = "input" /\ ~ Fresh
  BY <1>1, <1>2 DEF Outputs, CurRuns, Fresh, Returning, TypeOK
<1>7. TypeOK'  BY <1>1, <1>5, <1>6, UnitReadsCell DEF TypeOK, Places
<1>8. Resting'  BY <1>1, <1>2, <1>4 DEF Resting, Returning, WorkerGets, ToWorker
<1>9. Fresh'  BY <1>1, <1>6 DEF Fresh
<1>10. answer'[cur] = {buffer} /\ \A r \in Requests \ {cur} : answer'[r] = answer[r]
  BY <1>1, <1>5, <1>6 DEF TypeOK
<1>11. CurRuns'  BY <1>1, <1>9 DEF CurRuns
<1>12. BufferSettled'
  <2>1. CASE buffer = cur  BY <1>1, <1>10, <2>1, <1>6 DEF BufferSettled
  <2>2. CASE buffer # cur
    BY <1>1, <1>6, <1>10, <2>2 DEF BufferSettled, Outputs, TypeOK
  <2> QED BY <2>1, <2>2
<1>13. OutputIsHeld'  BY <1>9 DEF OutputIsHeld
<1>14. OwnAnswer'
  <2>1. ASSUME NEW r \in Requests, NEW v \in answer'[r], v # r
        PROVE  r \in silent /\ (v = Nobody \/ answer'[v] = {v})
    <3>1. CASE r = cur
      <4>1. v = buffer /\ buffer # now  BY <1>6, <1>10, <2>1, <3>1
      <4>2. cur \in silent  BY <1>6, <4>1 DEF OutputIsHeld, Outputs
      <4>3. buffer = Nobody \/ answer[buffer] = {buffer}  BY <4>1 DEF BufferSettled, Outputs
      <4> QED BY <1>6, <1>10, <3>1, <4>1, <4>2, <4>3 DEF TypeOK
    <3>2. CASE r # cur
      <4>1. v \in answer[r]  BY <1>10, <2>1, <3>2
      <4>2. r \in silent /\ (v = Nobody \/ answer[v] = {v})  BY <2>1, <4>1 DEF Outputs, OwnAnswer
      <4>3. v \in Requests \cup {Nobody}  BY <4>1 DEF TypeOK
      <4> QED BY <1>6, <1>10, <4>2, <4>3
    <3> QED BY <3>1, <3>2
  <2> QED BY <1>1, <2>1 DEF OwnAnswer
<1> QED BY <1>5, <1>7, <1>8, <1>11, <1>12, <1>13, <1>14 DEF Phase, Outputs

\* The worker writes.
LEMMA WorkerWriteInv == ASSUME IInv, WorkerWrite PROVE IInv'
<1> USE DEF IInv
<1>1. wsend \in Seq(Cells) /\ up \in Seq(Cells) /\ wsend # <<>> /\ wsend' = Tail(wsend)
      /\ up' = Append(up, Head(wsend)) /\ Len(up) < Room
  BY DEF TypeOK, WorkerWrite, HasRoom
<1>2. Head(wsend) \in Cells /\ Tail(wsend) \in Seq(Cells)
  BY ONLY <1>1, HeadTailProperties
<1>3. ToUnit' = ToUnit
  <2> HIDE DEF Cells
  <2>1. Append(up, Head(wsend)) \o Tail(wsend) = up \o wsend  BY ONLY <1>1, MoveCell
  <2> QED BY <1>1, <2>1 DEF ToUnit
<1>4. ToWorker' = ToWorker
      /\ UNCHANGED <<unit, cur, usend, uneed, answer, worker, alive, now, buffer, silent, down>>
  BY DEF WorkerWrite, ToWorker, unitVars
<1>5. TypeOK'
  <2>1. up' \in Seq(Cells) /\ Len(up') = Len(up) + 1 /\ Len(up) \in Nat
    BY ONLY <1>1, <1>2, AppendProperties, LenProperties
  <2> QED BY <1>1, <1>2, <1>4, <2>1, PipeAssumption DEF TypeOK
<1>6. Phase'
  BY <1>3, <1>4 DEF Phase, Resting, Asking, Running, Calling, Serving, Replying, Returning, Stuck, WorkerGets
<1>7. Outputs'  BY <1>3, <1>4, OutputsStay DEF Fresh
<1> QED BY <1>5, <1>6, <1>7

\* The worker has the input of the run.
LEMMA ReadInputInv == ASSUME IInv, ReadInput PROVE IInv'
<1> USE DEF IInv
<1>1. UNCHANGED <<unit, cur, usend, uneed, answer, alive, wsend, buffer, up>> /\ alive
      /\ worker = "input" /\ worker' = "run" /\ now' = Head(down).val
      /\ silent' = silent \cup {Head(down).val} /\ WorkerReads
  BY DEF ReadInput, WorkerReads, unitVars
<1>2. ToWorker # <<>> /\ Head(down) = Head(ToWorker) /\ ToWorker' = Tail(ToWorker)
  BY <1>1, WorkerReadsCell
<1>3. Asking
  BY <1>1, <1>2 DEF Phase, Resting, Asking, Running, Calling, Serving, Replying, Returning, Stuck, WorkerGets
<1>4. now' = cur /\ ToWorker' = <<>>
  <2>1. ToWorker = <<Cell("input", cur)>>  BY <1>1, <1>3 DEF Asking, WorkerGets
  <2>2. Head(ToWorker) = Cell("input", cur) /\ Tail(ToWorker) = <<>>  BY ONLY <2>1
  <2> QED BY <1>1, <1>2, <2>2 DEF Cell
<1>5. Fresh /\ ~ Fresh'  BY <1>1, <1>3 DEF Fresh, Asking
<1>6. cur \in Requests /\ answer[cur] = {}
  BY <1>3 DEF Asking, Outputs, CurRuns, TypeOK
<1>7. TypeOK'  BY <1>1, <1>4, <1>6, WorkerReadsCell DEF TypeOK, Inputs
<1>8. Running'  BY <1>1, <1>3, <1>4 DEF Running, Asking, WorkerGets, ToUnit
<1>9. Outputs'
  <2>1. now' = cur' /\ silent' = silent \cup {cur}  BY <1>1, <1>4
  <2>2. CurRuns'  BY <1>1, <2>1 DEF Outputs, CurRuns
  <2>3. BufferSettled' /\ OutputIsHeld'
    BY <1>1, <1>5, <2>1 DEF Outputs, BufferSettled, OutputIsHeld
  <2>4. OwnAnswer'  BY <1>1, <2>1 DEF Outputs, OwnAnswer
  <2> QED BY <2>2, <2>3, <2>4 DEF Outputs
<1> QED BY <1>7, <1>8, <1>9 DEF Phase

\* Inside the function nothing is on its way.
LEMMA InFunction ==
  ASSUME IInv, worker = "run"
  PROVE  Running /\ ~ Fresh /\ now = cur /\ cur \in Requests /\ answer[cur] = {}
<1> USE DEF IInv
<1>1. Running
  BY DEF Phase, Resting, Asking, Running, Calling, Serving, Replying, Returning, Stuck
<1>2. ~ Fresh  BY DEF Fresh
<1> QED BY <1>1, <1>2 DEF Running, Outputs, CurRuns, TypeOK

\* The function sets its output.
LEMMA SetOutputInv == ASSUME IInv, SetOutput PROVE IInv' /\ buffer' = cur
<1> USE DEF IInv
<1>1. UNCHANGED <<unit, cur, usend, uneed, answer, worker, alive, now, wsend, up, down>>
      /\ worker = "run" /\ buffer' = now /\ silent' = silent \ {now}
  BY DEF SetOutput, unitVars, Output
<1>2. Running /\ ~ Fresh /\ now = cur /\ cur \in Requests /\ answer[cur] = {}
  BY <1>1, InFunction
<1>3. TypeOK'  BY <1>1, <1>2 DEF TypeOK
<1>4. Running'  BY <1>1, <1>2 DEF Running, WorkerGets, ToUnit, ToWorker
<1>5. ~ Fresh'  BY <1>1 DEF Fresh
<1>6. CurRuns' /\ BufferSettled' /\ OutputIsHeld'
  BY <1>1, <1>2, <1>5 DEF Outputs, CurRuns, BufferSettled, OutputIsHeld
<1>7. OwnAnswer'  BY <1>1, <1>2 DEF Outputs, OwnAnswer
<1> QED BY <1>1, <1>2, <1>3, <1>4, <1>6, <1>7 DEF Phase, Outputs

\* The function calls a state operation.
LEMMA CallStateInv ==
  ASSUME IInv, ReadState \/ WriteState
  PROVE  IInv'
<1> USE DEF IInv
<1>1. UNCHANGED <<unit, cur, usend, uneed, answer, alive, now, buffer, silent, up, down>>
      /\ worker = "run"
      /\ \/ wsend' = ReadCells(now) /\ worker' = "readReply"
         \/ wsend' = WriteCells(now) /\ worker' = "writeReply"
  BY DEF ReadState, WriteState, CallState, unitVars
<1>2. Running /\ ~ Fresh  BY <1>1, InFunction
<1>3. now \in Requests \cup {Nobody} /\ wsend' \in Seq(Cells)  BY <1>1, CellsOK DEF TypeOK
<1>4. ToUnit' = wsend'  BY <1>1, <1>2, <1>3, WorkerStartsWriting DEF Running
<1>5. TypeOK'  BY <1>1, <1>3 DEF TypeOK, Inputs
<1>6. Calling'
  <2>1. IsCall(ReadCells(now), "READ", ReadFields) /\ IsCall(WriteCells(now), "WRITE", WriteFields)
    BY <1>3, CallsAgree
  <2> QED BY <1>1, <1>2, <1>4, <2>1 DEF Calling, Running, WorkerGets, ToWorker
<1>7. ~ Fresh'  BY <1>1 DEF Fresh
<1>8. Outputs'  BY <1>1, <1>2, <1>7, OutputsStay
<1> QED BY <1>5, <1>6, <1>8 DEF Phase

\* The worker has the reply to a state call.
LEMMA ReadReplyInv == ASSUME IInv, ReadReply PROVE IInv'
<1> USE DEF IInv
<1>1. UNCHANGED <<unit, cur, usend, uneed, answer, alive, now, wsend, buffer, silent, up>> /\ alive
      /\ worker \in {"readReply", "writeReply"} /\ WorkerReads
      /\ worker' = IF worker = "readReply" /\ Head(down).val # "NOT_FOUND" THEN "value" ELSE "run"
  BY DEF ReadReply, WorkerReads, unitVars, AfterReadReply
<1>2. ToWorker # <<>> /\ Head(down) = Head(ToWorker) /\ ToWorker' = Tail(ToWorker)
  BY <1>1, WorkerReadsCell
<1>3. Replying \/ (Stuck /\ worker = "readReply" /\ ToWorker = <<Cmd("FOUND")>>)
  BY <1>1, <1>2 DEF Phase, Resting, Asking, Running, Calling, Serving, Replying, Returning, Stuck, WorkerGets
<1>4. Cmd("FOUND").val # "NOT_FOUND" /\ Cmd("NOT_FOUND").val = "NOT_FOUND"  BY DEF Cmd, Cell
<1>5. Phase'
  <2>1. CASE Stuck /\ worker = "readReply" /\ ToWorker = <<Cmd("FOUND")>>
    <3>1. Head(ToWorker) = Cmd("FOUND") /\ Tail(ToWorker) = <<>>  BY ONLY <2>1
    <3>2. Stuck'  BY <1>1, <1>2, <1>4, <2>1, <3>1 DEF Stuck, WorkerGets, ToUnit
    <3> QED BY <3>2 DEF Phase
  <2>2. CASE Replying /\ worker = "readReply" /\ ToWorker = FoundCells(cur)
    <3>1. Head(ToWorker) = Cmd("FOUND") /\ Tail(ToWorker) = <<Cell("value", cur)>>
      BY <2>2 DEF FoundCells
    <3>2. worker' = "value"  BY <1>1, <1>2, <1>4, <2>2, <3>1
    <3>3. Replying'  BY <1>1, <1>2, <2>2, <3>1, <3>2 DEF Replying, WorkerGets, ToUnit
    <3> QED BY <3>3 DEF Phase
  <2>3. CASE Replying /\ worker = "readReply" /\ ToWorker = <<Cmd("NOT_FOUND")>>
    <3>1. Head(ToWorker) = Cmd("NOT_FOUND") /\ Tail(ToWorker) = <<>>  BY ONLY <2>3
    <3>2. worker' = "run"  BY <1>1, <1>2, <1>4, <2>3, <3>1
    <3>3. Running'  BY <1>1, <1>2, <2>3, <3>1, <3>2 DEF Replying, Running, WorkerGets, ToUnit
    <3> QED BY <3>3 DEF Phase
  <2>4. CASE Replying /\ worker = "writeReply"
    <3>1. ToWorker = <<Cmd("FOUND")>> \/ ToWorker = <<Cmd("NOT_FOUND")>>
      BY <1>1, <2>4 DEF Replying, WorkerGets
    <3>2. \A c : Tail(<<c>>) = <<>>  OBVIOUS
    <3>3. Tail(ToWorker) = <<>>  BY <3>1, <3>2
    <3>4. Running'  BY <1>1, <1>2, <2>4, <3>3 DEF Replying, Running, WorkerGets, ToUnit
    <3> QED BY <3>4 DEF Phase
  <2> QED BY <1>1, <1>3, <2>1, <2>2, <2>3, <2>4 DEF Replying, WorkerGets
<1>6. TypeOK'  BY <1>1, WorkerReadsCell DEF TypeOK, Inputs
<1>7. ~ Fresh /\ ~ Fresh'  BY <1>1 DEF Fresh
<1>8. Outputs'  BY <1>1, <1>7, OutputsStay
<1> QED BY <1>5, <1>6, <1>8

\* The worker has the value of a state.
LEMMA ReadValueInv == ASSUME IInv, ReadValue PROVE IInv'
<1> USE DEF IInv
<1>1. UNCHANGED <<unit, cur, usend, uneed, answer, alive, now, wsend, buffer, silent, up>> /\ alive
      /\ worker = "value" /\ worker' = "run" /\ WorkerReads
  BY DEF ReadValue, WorkerReads, unitVars
<1>2. ToWorker # <<>> /\ ToWorker' = Tail(ToWorker)  BY <1>1, WorkerReadsCell
<1>3. Replying
  BY <1>1, <1>2 DEF Phase, Resting, Asking, Running, Calling, Serving, Replying, Returning, Stuck, WorkerGets
<1>4. ToWorker' = <<>>
  <2>1. ToWorker = <<Cell("value", cur)>>  BY <1>1, <1>3 DEF Replying, WorkerGets
  <2>2. Tail(ToWorker) = <<>>  BY ONLY <2>1
  <2> QED BY <1>2, <2>2
<1>5. Running'  BY <1>1, <1>3, <1>4 DEF Replying, Running, WorkerGets, ToUnit
<1>6. TypeOK'  BY <1>1, WorkerReadsCell DEF TypeOK, Inputs
<1>7. Outputs'  BY <1>1, OutputsStay DEF Fresh
<1> QED BY <1>5, <1>6, <1>7 DEF Phase

\* The function is over: RETURN, the result and the next READY are to be written.
LEMMA ReturnInv == ASSUME IInv, Return PROVE IInv'
<1> USE DEF IInv
<1>1. UNCHANGED <<unit, cur, usend, uneed, answer, alive, now, buffer, silent, up, down>>
      /\ worker = "run" /\ worker' = "input" /\ wsend' = ReturnCells(buffer)
  BY DEF Return, unitVars
<1>2. Running /\ ~ Fresh  BY <1>1, InFunction
<1>3. wsend' \in Seq(Cells)  BY <1>1, CellsOK DEF TypeOK
<1>4. ToUnit' = wsend'  BY <1>1, <1>2, <1>3, WorkerStartsWriting DEF Running
<1>5. TypeOK'  BY <1>1, <1>3 DEF TypeOK, Inputs
<1>6. ReturnCells(buffer)' = ReturnCells(buffer) /\ ReturnCells(buffer) # <<>>
  BY <1>1 DEF ReturnCells
<1>7. Returning'  BY <1>1, <1>2, <1>4, <1>6 DEF Returning, Running, WorkerGets, ToWorker
<1>8. ~ Fresh'  BY <1>1, <1>2, <1>4, <1>6 DEF Fresh, Running
<1>9. Outputs'  BY <1>1, <1>2, <1>8, OutputsStay
<1> QED BY <1>5, <1>7, <1>9 DEF Phase

\* The worker process ends.
LEMMA DieInv == ASSUME IInv, Die PROVE IInv'
<1> USE DEF IInv
<1>1. UNCHANGED <<unitVars, worker, now, wsend, buffer, silent, up, down>> /\ alive' = FALSE
  BY DEF Die
<1>2. TypeOK'  BY <1>1 DEF TypeOK, unitVars
<1>3. Phase'
  BY <1>1 DEF Phase, Resting, Asking, Running, Calling, Serving, Replying, Returning, Stuck, WorkerGets, ToUnit, unitVars, FoundCells, ReturnCells
<1>4. Outputs'  BY <1>1, OutputsStay DEF Fresh, ToUnit, unitVars
<1> QED BY <1>2, <1>3, <1>4

LEMMA StutterInv == ASSUME IInv, UNCHANGED vars PROVE IInv'
<1> USE DEF IInv
<1>1. UNCHANGED <<unitVars, workerVars, up, down>>  BY DEF vars
<1>2. TypeOK'  BY <1>1 DEF TypeOK, unitVars, workerVars
<1>3. Phase'
  BY <1>1 DEF Phase, Resting, Asking, Running, Calling, Serving, Replying, Returning, Stuck, WorkerGets, ToUnit, ToWorker, unitVars, workerVars, FoundCells, ReturnCells
<1>4. Outputs'  BY <1>1, OutputsStay DEF Fresh, ToUnit, unitVars, workerVars
<1> QED BY <1>2, <1>3, <1>4

-----------------------------------------------------------------------------
(* The theorems.                                                           *)

LEMMA NextIInv == ASSUME IInv, [Next]_vars PROVE IInv'
<1>1. CASE \E r \in Requests : RunCode(r)  BY <1>1, RunCodeInv
<1>2. CASE UnitStep
  BY <1>2, SendMsgInv, ReadReadyInv, ReadCommandInv, ReadFieldInv, AnswerReadInv, AnswerWriteInv,
     ReadResultInv DEF UnitStep
<1>3. CASE WorkerWrite  BY <1>3, WorkerWriteInv
<1>4. CASE WorkerReadStep
  BY <1>4, ReadInputInv, ReadReplyInv, ReadValueInv DEF WorkerReadStep
<1>5. CASE SetOutput  BY <1>5, SetOutputInv
<1>6. CASE ReadState \/ WriteState  BY <1>6, CallStateInv
<1>7. CASE Return  BY <1>7, ReturnInv
<1>8. CASE Die  BY <1>8, DieInv
<1>9. CASE Over \/ UNCHANGED vars  BY <1>9, StutterInv DEF Over
<1> QED BY <1>1, <1>2, <1>3, <1>4, <1>5, <1>6, <1>7, <1>8, <1>9 DEF Next

\* The conversation is always in one of its phases.
THEOREM Invariance == Spec => []IInv
BY InitIInv, NextIInv, PTL DEF Spec

\* The variables keep their types and no pipe holds more than it has room for.
THEOREM TypeCorrect == Spec => []TypeOK
BY Invariance, PTL DEF IInv

\* The head of a pipe is always the field its reader reads next.
THEOREM FramingHolds == Spec => []Framing
<1>1. ASSUME IInv PROVE Framing
  <2> USE <1>1 DEF IInv
  <2>1. up \in Seq(Cells) /\ wsend \in Seq(Cells) /\ down \in Seq(Cells) /\ usend \in Seq(Cells)
    BY DEF TypeOK
  <2>2. up # <<>> => ToUnit # <<>> /\ Head(up) = Head(ToUnit) /\ ToUnit \in Seq(Cells)
    <3> HIDE DEF Cells
    <3> QED BY ONLY <2>1, TakeCell, ConcatProperties DEF ToUnit
  <2>3. down # <<>> => ToWorker # <<>> /\ Head(down) = Head(ToWorker)
    <3> HIDE DEF Cells
    <3> QED BY ONLY <2>1, TakeCell DEF ToWorker
  <2>4. \A c : Head(<<c>>) = c /\ \A d : Head(<<c, d>>) = c /\ \A e : Head(<<c, d, e>>) = c
               /\ Tail(<<c, d, e>>) = <<d, e>>
    OBVIOUS
  <2>5. \A f, v : Cell(f, v).field = f /\ Cell(f, v).val = v  BY DEF Cell
  <2>6. \A c : Cmd(c).field = "cmd" /\ Cmd(c).val = c  BY DEF Cmd, Cell
  <2>7. ASSUME up # <<>>
        PROVE  Head(up).field = UnitField /\ (AwaitsCommand => Head(up).val \in UnitCommands)
    <3>1. CASE Resting  BY <2>2, <2>4, <2>6, <2>7, <3>1 DEF Resting, UnitField, AwaitsCommand, UnitCommands
    <3>2. CASE Calling
      BY <2>2, <2>6, <2>7, <3>2 DEF Calling, IsCall, UnitField, AwaitsCommand, UnitCommands
    <3>3. CASE Serving
      <4>1. uneed # <<>>
        <5>1. Len(ToUnit) # 0  BY <2>2, <2>7, EmptySeq
        <5> QED BY <3>3, <5>1 DEF Serving, FieldsAre
      <4>2. Head(ToUnit).field = Head(uneed)
        BY <2>2, <2>7, <3>3, <4>1, FieldsShrink DEF Serving, TypeOK
      <4>3. UnitField = Head(uneed) /\ ~ AwaitsCommand  BY <4>1 DEF UnitField, AwaitsCommand
      <4>4. ToUnit # <<>> /\ Head(up) = Head(ToUnit)  BY <2>2, <2>7
      <4> QED BY <4>2, <4>3, <4>4
    <3>4. CASE Returning
      <4>1. Head(ReturnCells(buffer)) = Cmd("RETURN")
            /\ Head(Tail(ReturnCells(buffer))) = Cell("result", buffer)
        BY DEF ReturnCells
      <4>2. CASE unit = "loop" /\ ToUnit = ReturnCells(buffer)
        <5>1. Head(up).field = "cmd" /\ Head(up).val = "RETURN"  BY <2>2, <2>6, <2>7, <4>1, <4>2
        <5> QED BY <3>4, <4>2, <5>1 DEF Returning, UnitField, AwaitsCommand, UnitCommands
      <4>3. CASE unit = "result" /\ ToUnit = Tail(ReturnCells(buffer))
        <5>1. Head(up).field = "result"  BY <2>2, <2>5, <2>7, <4>1, <4>3
        <5> QED BY <3>4, <4>3, <5>1 DEF Returning, UnitField, AwaitsCommand
      <4> QED BY <3>4, <4>2, <4>3 DEF Returning
    <3>5. CASE Asking \/ Running \/ Replying \/ Stuck
      BY <2>2, <2>7, <3>5 DEF Asking, Running, Replying, Stuck
    <3> QED BY <3>1, <3>2, <3>3, <3>4, <3>5 DEF Phase
  <2>8. ASSUME down # <<>>, alive
        PROVE  Head(down).field = WorkerField
               /\ (WorkerField = "cmd" => Head(down).val \in {"FOUND", "NOT_FOUND"})
    <3>1. ToWorker # <<>> /\ Head(down) = Head(ToWorker)  BY <2>3, <2>8
    <3>2. Asking \/ Replying \/ Stuck
      BY <2>8, <3>1 DEF Phase, Resting, Asking, Running, Calling, Serving, Replying, Returning, Stuck, WorkerGets
    <3>3. CASE Asking  BY <2>4, <2>5, <2>8, <3>1, <3>3 DEF Asking, WorkerGets, WorkerField
    <3>4. CASE Replying
      <4>1. Head(FoundCells(cur)) = Cmd("FOUND")  BY DEF FoundCells
      <4> QED BY <2>4, <2>5, <2>6, <2>8, <3>1, <3>4, <4>1 DEF Replying, WorkerGets, WorkerField
    <3>5. CASE Stuck  BY <2>4, <2>6, <2>8, <3>1, <3>5 DEF Stuck, WorkerGets, WorkerField
    <3> QED BY <3>2, <3>3, <3>4, <3>5
  <2> QED BY <2>7, <2>8 DEF Framing
<1> QED BY <1>1, Invariance, PTL

\* The pipes are used in one direction at a time.
THEOREM HalfDuplexHolds == Spec => []HalfDuplex
<1>1. ASSUME IInv PROVE HalfDuplex
  <2> SUFFICES ASSUME usend \o down # <<>>, alive PROVE wsend \o up = <<>>
    BY DEF HalfDuplex
  <2> USE <1>1 DEF IInv
  <2>1. up \in Seq(Cells) /\ wsend \in Seq(Cells) /\ down \in Seq(Cells) /\ usend \in Seq(Cells)
    BY DEF TypeOK
  <2> HIDE DEF Cells
  <2>2. ToWorker # <<>>
    BY ONLY <2>1, usend \o down # <<>>, ConcatEqualIffEmpty DEF ToWorker
  <2>3. ToUnit = <<>>
    BY <2>2 DEF Phase, Resting, Asking, Running, Calling, Serving, Replying, Returning, Stuck, WorkerGets
  <2> QED BY ONLY <2>1, <2>3, ConcatEqualIffEmpty DEF ToUnit
<1> QED BY <1>1, Invariance, PTL

\* Nothing but READY is left over from a run.
THEOREM CleanBetweenRunsHolds == Spec => []CleanBetweenRuns
<1>1. ASSUME IInv PROVE CleanBetweenRuns
  <2> SUFFICES ASSUME unit = "idle", alive
               PROVE  down = <<>> /\ up \o wsend = <<Cmd("READY")>>
    BY DEF CleanBetweenRuns
  <2> USE <1>1 DEF IInv
  <2>1. down \in Seq(Cells) /\ usend \in Seq(Cells)  BY DEF TypeOK
  <2> HIDE DEF Cells
  <2>2. Resting
    BY DEF Phase, Resting, Asking, Running, Calling, Serving, Replying, Returning, Stuck
  <2>3. ToWorker = <<>> /\ ToUnit = <<Cmd("READY")>>  BY <2>2 DEF Resting, WorkerGets
  <2>4. down = <<>>  BY ONLY <2>1, <2>3, ConcatEqualIffEmpty DEF ToWorker
  <2> QED BY <2>3, <2>4 DEF ToUnit
<1> QED BY <1>1, Invariance, PTL

\* State calls are made under the id of the request whose function makes them.
THEOREM OwnStateCallsHolds == Spec => []OwnStateCalls
<1>1. ASSUME IInv, worker # "input" PROVE now = cur /\ now # Nobody
  <2>1. ~ Fresh  BY <1>1 DEF Fresh
  <2>2. unit # "idle"
    BY <1>1 DEF IInv, Phase, Resting, Asking, Running, Calling, Serving, Replying, Returning, Stuck
  <2> QED BY <1>1, <2>1, <2>2 DEF IInv, Outputs, CurRuns
<1>2. IInv => OwnStateCalls  BY <1>1 DEF OwnStateCalls
<1> QED BY <1>2, Invariance, PTL

\* An answer is the request's own output, unless its function set none.
THEOREM OwnAnswerHolds == Spec => []OwnAnswer
BY Invariance, PTL DEF IInv, Outputs

-----------------------------------------------------------------------------
(* The refinement.                                                         *)

\* A step of the two processes is a step of the call, or none.
LEMMA CallStep == ASSUME IInv, [Next]_vars PROVE [Call!Next]_(Call!vars)
<1> USE DEF IInv
<1>1. CASE \E r \in Requests : RunCode(r)
  <2>1. PICK r \in Requests : RunCode(r)  BY <1>1
  <2>2. cur = Nobody  BY <2>1 DEF RunCode, Outputs, CurRuns
  <2>3. Call!Begin(r)  BY <2>1, <2>2 DEF RunCode, Call!Begin, workerVars
  <2> QED BY <2>3 DEF Call!Next
<1>2. CASE ReadResult
  <2>1. Head(up).val = buffer  BY <1>2, ReadResultInv
  <2>2. cur \in Requests  BY <1>2 DEF ReadResult, Outputs, CurRuns, TypeOK
  <2>3. Call!Answer(cur)  BY <1>2, <2>1 DEF ReadResult, UnitReads, Call!Answer, workerVars
  <2> QED BY <2>2, <2>3 DEF Call!Next
<1>3. CASE SetOutput
  <2>1. buffer' = cur /\ cur \in Requests  BY <1>3, SetOutputInv, InFunction DEF SetOutput
  <2>2. Call!Output(cur)  BY <1>3, <2>1 DEF SetOutput, Call!Output, unitVars
  <2> QED BY <2>1, <2>2 DEF Call!Next
<1>4. CASE AnswerRead \/ AnswerWrite
  <2>1. cur \in Requests /\ unit \in {"read", "write"}
    BY <1>4 DEF AnswerRead, AnswerWrite, Outputs, CurRuns, TypeOK
  <2>2. UNCHANGED <<cur, buffer, answer>> /\ unit' \in {"loop", "thrown"}
    BY <1>4 DEF AnswerRead, AnswerWrite, AfterThrow, workerVars
  <2>3. CASE unit' = "thrown"
    <3>1. Call!Fail(cur)  BY <2>2, <2>3 DEF Call!Fail
    <3> QED BY <2>1, <3>1 DEF Call!Next
  <2>4. CASE unit' # "thrown"  BY <2>1, <2>2, <2>4 DEF Call!vars
  <2> QED BY <2>3, <2>4
<1>5. CASE SendMsg \/ WorkerWrite \/ WorkerReadStep \/ ReadState \/ WriteState \/ Return \/ Die
           \/ ReadField \/ Over \/ UNCHANGED vars
  <2>1. UNCHANGED <<cur, buffer, answer, unit>>
    BY <1>5 DEF SendMsg, WorkerWrite, WorkerReadStep, ReadInput, ReadReply, ReadValue, WorkerReads,
         ReadState, WriteState, CallState, Return, Die, ReadField, UnitReads, Over,
         vars, unitVars, workerVars
  <2> QED BY <2>1 DEF Call!vars
<1>6. CASE ReadReady \/ ReadCommand
  <2>1. UNCHANGED <<cur, buffer, answer>> /\ unit # "thrown" /\ unit' # "thrown"
    BY <1>6 DEF ReadReady, ReadCommand, UnitReads, workerVars
  <2> QED BY <2>1 DEF Call!vars
<1> QED BY <1>1, <1>2, <1>3, <1>4, <1>5, <1>6 DEF Next, UnitStep

\* The unit, the worker and the pipes between them implement a call.
THEOREM ImplementsCall == Spec => CallSpec
<1>1. Init => Call!Init  BY DEF Init, Call!Init
<1> QED BY <1>1, CallStep, Invariance, PTL DEF Spec, CallSpec, Call!Spec
=============================================================================
