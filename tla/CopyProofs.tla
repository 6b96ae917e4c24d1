----------------------------- MODULE CopyProofs -----------------------------
(***************************************************************************)
(* The copy pipeline (cli/copy.go, cli/source.go, archive/stream.go,       *)
(* client/put.go), for sources of any length: what is committed is whole,  *)
(* the reported error is the cause, and no secret stays behind a success.  *)
(***************************************************************************)
EXTENDS Main, TLAPS

Faults   == {"fault", "empty", "short"}
Upstream == {"none", "closedpipe", "canceled"}
PutErrs  == {"none", "source", "unreachable", "unconfirmed"} \cup Refusals

\* The archiver: a result is final, a tar that ended well has entries, a closed
\* pipe is the join's doing and a cancel the signal's.
ArchiverInv ==
  /\ count \in Nat
  /\ prod # "none" => source = "archive"
  /\ prod = "trailer" => count > 0
  /\ prod = "done" /\ srcErr = "none" => count > 0
  /\ prod # "done" /\ flow # "over" => srcErr = "none"
  /\ srcErr \in Faults \cup Upstream
  /\ srcErr = "closedpipe" => readEnd = "closed"
  /\ srcErr = "canceled" => Canceled
  /\ signals \in Nat

\* The request body: it ends cleanly or is torn, once, and only an archive
\* without a fault ends cleanly.
BodyInv ==
  /\ flow = "open" => prod = "none" /\ loop = "idle"
  /\ loop # "done" => wire = "open" /\ rec = "none"
  /\ wire = "ended" => rec = "none" /\ srcErr = "none"
  /\ wire = "ended" /\ source = "archive" => prod = "done"
  /\ wire \in {"open", "ended"}
  /\ rec \in {"none", "fault", "canceled"}
  /\ rec = "canceled" => Canceled
  /\ rec = "fault" /\ source = "archive" => srcErr \in Faults

\* The server answers once, and its answer says what it did.
AnswerInv ==
  /\ server = "stored" => wire = "ended"
  /\ reply \in {"none", "plain", "once"} \cup Refusals
  /\ reply \in {"plain", "once"} => server = "stored"
  /\ reply \in Refusals <=> server = "refused"
  /\ server # "stored" => value = "none"
  /\ reply = "once" \/ deleted => value # "plain" /\ server = "stored"

\* What the flow knows: the reply it joins with, and why the round trip failed.
FlowInv ==
  /\ flow = "clean" => server = "stored"
  /\ flow \in {"open", "put", "clean"} => putErr = "none"
  /\ flow \in {"join", "receive"} /\ putErr = "none" =>
       server = "stored" /\ (once => reply = "once")
  /\ putErr \in PutErrs
  /\ putErr = "unconfirmed" => server = "stored"
  /\ putErr \in Refusals => server = "refused"
  /\ putErr = "source" => rec = "fault"
  /\ putErr = "unreachable" => Dead /\ rec # "fault" /\ loop = "done"

\* The end: the result is decided once, from what the flow knew.
EndInv ==
  /\ flow # "open" => act = "copy"
  /\ flow = "over" <=> copyErr # "pending"
  /\ flow = "over" => Over
  /\ act = "copy" /\ exit = 0 => flow = "over" /\ copyErr = "none"
  /\ copyErr \in {"pending"} \cup PutErrs
  /\ copyErr = "none" => server = "stored" /\ (once => reply = "once")
  /\ copyErr = "source" => srcErr \in Faults \/ rec = "fault"
  /\ flow = "over" /\ (srcErr \in Faults \/ rec = "fault") =>
       copyErr \in {"source"} \cup IF source = "archive" THEN {} ELSE Refusals
  /\ copyErr = "unreachable" => Dead
  /\ copyErr = "unconfirmed" => server = "stored"
  /\ copyErr \in Refusals => server = "refused"

CopyInv == ArchiverInv /\ BodyInv /\ AnswerInv /\ FlowInv /\ EndInv

-----------------------------------------------------------------------------
(* Steps that are not the copy's *)

\* The process starts with the copy still to open its source.
LEMMA CopyStarts == Init => CopyInv
BY CopyAssumption
DEF Init, CommandInit, CopyInit, CopyInv, ArchiverInv, BodyInv, AnswerInv, FlowInv,
    EndInv, Canceled, Over, Running, Dead, Refused, Faults, Upstream, PutErrs,
    Refusals

\* A paste's or a server's step, or a question, is of a run that does not copy.
LEMMA OthersDoNotCopy ==
  ASSUME PasteNext \/ ServeNext \/ Ask
  PROVE  act # "copy" /\ UNCHANGED <<act, signals>>
<1>1. CASE PasteNext
  BY <1>1 DEF PasteNext, PasteGet, Landing, SinkWrite, CreateFile, CopyBody, Lstat,
              Untar, Rename, Relstat, DiscardTemp, Divert, PasteReturn,
              ForeignCreate, ForeignRemove, Pasting, commandVars
<1>2. CASE ServeNext
  BY <1>2 DEF ServeNext, Runtime, Boot, Bridge, ServeReturns, Shutdown, Drained,
              RunReturns, ServeFaults, Tick, Work, Acquire, Acquired, Enter, Leave,
              Release, Released, Evicted, Snapshot, Copied, Peek, Looked,
              LockRegistry, LockGate, ReaperReturns, Accept, EndFollow, EndTransfer,
              Move, Serving, rest, commandVars
<1>3. CASE Ask
  BY <1>3 DEF Ask
<1> QED
  BY <1>1, <1>2, <1>3

LEMMA OthersKeepCopy ==
  ASSUME CopyInv, PasteNext \/ ServeNext \/ Ask, UNCHANGED copyVars
  PROVE  CopyInv'
BY OthersDoNotCopy
DEF CopyInv, ArchiverInv, BodyInv, AnswerInv, FlowInv, EndInv, copyVars, argVars,
    prodVars, loopVars, serveVars, flowVars, Canceled, Over, Running, Dead, Refused,
    Faults, Upstream, PutErrs, Refusals

\* A signal cancels, or ends the run without a result.
LEMMA InterruptKeepsCopy ==
  ASSUME CopyInv, Interrupt, UNCHANGED copyVars
  PROVE  CopyInv'
BY DEF Interrupt, CopyInv, ArchiverInv, BodyInv, AnswerInv, FlowInv, EndInv,
    copyVars, argVars, prodVars, loopVars, serveVars, flowVars, Canceled, Over,
    Running, Dead, Refused, Faults, Upstream, PutErrs, Refusals

-----------------------------------------------------------------------------
(* The copy's steps *)

\* A reported success is an exit status 0, and the other way round.
LEMMA SuccessIsZero ==
  \A err \in PutErrs : clientExit(exitCode(err)) = 0 <=> err = "none"
BY DEF PutErrs, Refusals, clientExit, exitCode

LEMMA ReturnEnds ==
  \A err \in PutErrs : clientExit(exitCode(err)) # Running
BY DEF PutErrs, Refusals, clientExit, exitCode, Running

\* archive.Stream: what it returns, and when.
LEMMA ArchiverKeeps ==
  ASSUME CopyInv, Archiver
  PROVE  CopyInv'
<1> USE DEF CopyInv, ArchiverInv, BodyInv, AnswerInv, FlowInv, EndInv, argVars,
            loopVars, serveVars, flowVars, commandVars, Canceled, Over, Dead, Refused,
            Archiving, stop, Faults, Upstream
<1>1. CASE Walk
  BY <1>1 DEF Walk
<1>2. CASE WalkCanceled
  BY <1>2 DEF WalkCanceled
<1>3. CASE WalkEnds
  BY <1>3 DEF WalkEnds
<1>4. CASE EntryShort
  BY <1>4 DEF EntryShort, copyEntry
<1>5. CASE WriteClosed
  BY <1>5 DEF WriteClosed, Offering
<1> QED
  BY <1>1, <1>2, <1>3, <1>4, <1>5 DEF Archiver

\* A body that ends as its source did.
LEMMA BodyEnds ==
  ASSUME CopyInv, Transferring, NEW how \in {"eof", "fault", "canceled"},
         bodyEnds(how),
         how = "eof" => srcErr = "none" /\ (source = "archive" => prod = "done"),
         how = "canceled" => Canceled,
         how = "fault" /\ source = "archive" => srcErr \in Faults
  PROVE  CopyInv'
<1>1. /\ loop' = "done" /\ wire' \in {wire, "ended"} /\ rec' \in {rec, how}
      /\ wire' = "ended" => how = "eof"
      /\ how = "eof" => rec' = rec
      /\ how # "eof" => rec' = how
  BY DEF bodyEnds, CopyInv, BodyInv, Transferring
<1>2. UNCHANGED <<argVars, prodVars, serveVars, flowVars, commandVars>>
  BY DEF bodyEnds
<1>3. rec = "none" /\ wire = "open" /\ flow # "over" /\ flow # "open"
  BY DEF Transferring, CopyInv, BodyInv, EndInv
<1>4. ArchiverInv'
  BY <1>2 DEF CopyInv, ArchiverInv, argVars, prodVars, flowVars, commandVars, Canceled
<1>5. BodyInv'
  BY <1>1, <1>2, <1>3 DEF CopyInv, BodyInv, argVars, prodVars, flowVars, commandVars,
                          Canceled
<1>6. AnswerInv'
  BY <1>1, <1>2, <1>3 DEF CopyInv, AnswerInv, serveVars, flowVars
<1>7. FlowInv'
  BY <1>1, <1>2, <1>3 DEF CopyInv, FlowInv, Transferring, argVars, serveVars,
              flowVars,
                          commandVars, Dead, Refused, Canceled
<1>8. EndInv'
  BY <1>2, <1>3 DEF CopyInv, EndInv, PutErrs, Refusals, argVars, prodVars, serveVars,
                    flowVars, commandVars, Over
<1> QED
  BY <1>4, <1>5, <1>6, <1>7, <1>8 DEF CopyInv

\* The transport's write loop: the body ends cleanly only with its source.
LEMMA LoopKeeps ==
  ASSUME CopyInv, Loop
  PROVE  CopyInv'
<1> USE DEF CopyInv, ArchiverInv, BodyInv, AnswerInv, FlowInv, EndInv, argVars,
            prodVars, serveVars, flowVars, commandVars, Canceled, Over, Dead, Refused,
            Transferring, Faults, Upstream
<1>1. CASE PipePiece
  BY <1>1 DEF PipePiece, Offering, sent, stop
<1>2. CASE PipeEnds
  <2>1. closeWithError(srcErr) \in {"eof", "fault", "canceled"}
        /\ (closeWithError(srcErr) = "eof" => srcErr = "none")
        /\ (closeWithError(srcErr) = "canceled" => srcErr = "canceled")
        /\ (closeWithError(srcErr) = "fault" => srcErr \in Faults)
    BY <1>2 DEF PipeEnds, closeWithError
  <2> QED
    BY <1>2, <2>1, BodyEnds DEF PipeEnds
<1>3. CASE SourcePiece
  BY <1>3 DEF SourcePiece, sent
<1>4. CASE SourceEnds
  <2>1. srcErr = "none"
    BY <1>4 DEF SourceEnds
  <2> QED
    BY <1>4, <2>1, BodyEnds DEF SourceEnds
<1> QED
  BY <1>1, <1>2, <1>3, <1>4 DEF Loop

\* The server, the network and the slot's other writer.
LEMMA WorldKeeps ==
  ASSUME CopyInv, LinkDrops \/ ServerRefuses \/ ServerStores \/ OtherWrites
  PROVE  CopyInv'
<1> USE DEF CopyInv, ArchiverInv, BodyInv, AnswerInv, FlowInv, EndInv, argVars,
            prodVars, loopVars, flowVars, commandVars, Canceled, Over, Dead, Refused,
            Refusals
<1>1. CASE LinkDrops
  BY <1>1 DEF LinkDrops
<1>2. CASE ServerRefuses
  BY <1>2 DEF ServerRefuses
<1>3. CASE ServerStores
  BY <1>3 DEF ServerStores
<1>4. CASE OtherWrites
  BY <1>4 DEF OtherWrites
<1> QED
  BY <1>1, <1>2, <1>3, <1>4

\* copyFlow and Put: what the flow concludes from the reply, the round trip's
\* error and the archiver's result.
LEMMA FlowKeeps ==
  ASSUME CopyInv, Flow
  PROVE  CopyInv'
<1> USE DEF CopyInv, ArchiverInv, BodyInv, AnswerInv, FlowInv, EndInv, argVars,
            prodVars, loopVars, serveVars, commandVars, Canceled, Over, Dead, Refused,
            Refusals, PutErrs, Faults, Upstream
<1>1. CASE CopyOpen
  BY <1>1, SuccessIsZero, ReturnEnds DEF CopyOpen, Returns
<1>2. CASE Dial
  BY <1>2 DEF Dial, flowVars
<1>3. CASE PutReplied
  BY <1>3 DEF PutReplied, confirmed
<1>4. CASE PutFails
  BY <1>4 DEF PutFails, putError
<1>5. CASE CleanUp
  BY <1>5 DEF CleanUp
<1>6. CASE JoinClose
  BY <1>6 DEF JoinClose, joinReadEnd
<1>7. CASE CopyReturn
  <2>1. resolveCopyError \in PutErrs
    BY DEF resolveCopyError
  <2> QED
    BY <1>7, <2>1, SuccessIsZero, ReturnEnds DEF CopyReturn, Returns, resolveCopyError
<1> QED
  BY <1>1, <1>2, <1>3, <1>4, <1>5, <1>6, <1>7 DEF Flow

LEMMA CopyKeeps == CopyInv /\ [Next]_vars => CopyInv'
<1> SUFFICES ASSUME CopyInv, [Next]_vars PROVE CopyInv'
  OBVIOUS
<1>1. CASE CopyNext
  BY <1>1, ArchiverKeeps, LoopKeeps, WorldKeeps, FlowKeeps DEF CopyNext
<1>2. CASE (PasteNext \/ ServeNext \/ Ask) /\ UNCHANGED copyVars
  BY <1>2, OthersKeepCopy
<1>3. CASE Interrupt /\ UNCHANGED copyVars
  BY <1>3, InterruptKeepsCopy
<1>4. CASE UNCHANGED vars
  BY <1>4
  DEF vars, commandVars, CopyInv, ArchiverInv, BodyInv, AnswerInv, FlowInv, EndInv,
      copyVars, argVars, prodVars, loopVars, serveVars, flowVars, Canceled, Over,
      Dead, Refused
<1> QED
  BY <1>1, <1>2, <1>3, <1>4 DEF Next

\* The invariant of a copy: how its three goroutines' errors and the server's
\* answer determine each other.
THEOREM CopyInvariant == Spec => []CopyInv
BY CopyStarts, CopyKeeps, PTL DEF Spec

\* A source of any length is committed, and a copy succeeds, only whole.
THEOREM OnlyWholeCommitted == Spec => []CommitsOnlyWhole
<1>1. CopyInv => CommitsOnlyWhole
  BY DEF CopyInv, ArchiverInv, BodyInv, AnswerInv, EndInv, CommitsOnlyWhole
<1> QED
  BY <1>1, CopyInvariant, PTL

\* Whichever of the three fails first, the report names the cause.
THEOREM CauseReported == Spec => []BlameIsRight
<1>1. CopyInv => BlameIsRight
  BY DEF CopyInv, ArchiverInv, EndInv, BlameIsRight, Faults, Upstream
<1> QED
  BY <1>1, CopyInvariant, PTL

\* A consume-once value stored as an ordinary one is never left behind silently.
THEOREM SecretsNotLeft == Spec => []NoSecretLeft
<1>1. CopyInv => NoSecretLeft
  BY DEF CopyInv, ArchiverInv, BodyInv, AnswerInv, EndInv, NoSecretLeft, Faults,
         Upstream, PutErrs
<1> QED
  BY <1>1, CopyInvariant, PTL
=============================================================================
