---------------------------- MODULE RelayProofs -----------------------------
(***************************************************************************)
(* The HTTP edge (api/handlers.go, api/framing.go, api/deadline.go,        *)
(* client/get.go, client/put.go), for sources of any size, any transport   *)
(* window and any number of readers: what looks complete is, what is       *)
(* stored is whole, a stop is not blamed on the client, and a connection   *)
(* that is kept has no deadline in the past.                               *)
(***************************************************************************)
EXTENDS Relay, TLAPS

\* Before the outcome of an upload is decided, and after its watcher was stopped.
Undecided == {"idle", "arm", "reading", "closing"}
Unwound   == {"abort", "returned", "done", "reused"}

\* The upload: the handler has no more bytes than were sent, and only a body
\* that ended is committed.
UploadInv ==
  /\ len \in Nat /\ sent \in Nat /\ taken \in Nat
  /\ sent <= len /\ taken <= sent
  /\ src = "ended" => sent = len
  /\ gen \in {"none", "live", "finalized", "aborted"}
  /\ ppc = "idle" => gen = "none"
  /\ gen = "none" => ppc \notin {"arm", "reading", "closing"}
  /\ ppc \in {"arm", "reading"} => gen = "live"
  /\ ppc = "closing" => gen = "live" /\ bodyEnded
  /\ gen = "finalized" => bodyEnded

\* The reply says what became of the generation.
AnswerInv ==
  /\ ppc \in Undecided => answer = "none"
  /\ answer = "200" \/ pres = "200" => gen = "finalized"

\* A deadline in the past is the stop's while the body is read, and nobody's
\* once the watcher was stopped.
DeadlineInv ==
  /\ ppc = "idle" => dl = "none" /\ watch = "off"
  /\ ppc \in {"arm", "reading"} /\ dl = "poked" => stop # "running"
  /\ ppc \in Unwound /\ watch = "on" => disarmed
  /\ ppc = "reused" => dl # "poked"

\* A response: its framing and the proof of completion speak of the finalized
\* generation, and a client concludes once.
Response(r) ==
  /\ off[r] \in Nat /\ got[r] \in Nat
  /\ gpc[r] = "idle" => frame[r] = "none"
  /\ frame[r] \in {"none", "length", "chunked"}
  /\ reply[r] \in {"none", "404", "500", "503"}
  /\ frame[r] = "length" => gen = "finalized" /\ declared[r] = taken
  /\ trailer[r] =>
       gpc[r] = "ended" /\ frame[r] = "chunked" /\ gen = "finalized" /\ off[r] = taken
  /\ cres[r] = "ok" => gen = "finalized" /\ got[r] = taken
ResponsesInv ==
  /\ gpc \in [Readers -> {"idle", "opened", "copying", "ended"}]
  /\ DOMAIN frame = Readers /\ DOMAIN declared = Readers /\ DOMAIN off = Readers
  /\ DOMAIN got = Readers /\ DOMAIN trailer = Readers /\ DOMAIN cres = Readers
  /\ DOMAIN reply = Readers
  /\ \A r \in Readers : Response(r)

RelayInv == UploadInv /\ AnswerInv /\ DeadlineInv /\ ResponsesInv

-----------------------------------------------------------------------------
(* Steps by whom they belong to *)

UploadStep == \/ PutStart \/ PutStep \/ PutPanic \/ IdleExpire \/ NextRequest
              \/ Watcher \/ Send \/ SourceFaults \/ UploadBreaks \/ PutResult
              \/ Runtime
ReaderStep(r) == \/ GetOpen(r) \/ GetStep(r) \/ GetPanic(r) \/ Receive(r)
                 \/ LinkBreaks(r) \/ ReadResult(r)

LEMMA NextSplits == Next <=> UploadStep \/ \E r \in Readers : ReaderStep(r)
BY DEF Next, UploadStep, ReaderStep

\* No reader changes the upload, its generation or the server.
LEMMA ReadersOnlyRead ==
  ASSUME NEW r \in Readers, ReaderStep(r)
  PROVE  UNCHANGED <<clientVars, up, putVars, dl, watchVars, genVars, stop>>
BY DEF ReaderStep, GetOpen, GetStep, GetHeaders, GetCopy, GetWriteFails, GetTorn,
       GetEnd, GetPanic, Receive, LinkBreaks, ReadResult

\* No step of the upload or of the server changes a response.
LEMMA UploadLeavesResponses ==
  ASSUME UploadStep
  PROVE  UNCHANGED <<getVars, readVars>>
BY DEF UploadStep, PutStart, PutStep, PutPanic, IdleExpire, NextRequest, Watcher, Send,
       SourceFaults, UploadBreaks, PutResult, Runtime, PutArm, PutCopy, PutRefused,
       PutEnd, PutCut, PutClose, PutDisarm, PutAbort, PutReturn, WatchFire, WatchStop,
       BeginStop, Drain, ForceClose

-----------------------------------------------------------------------------
(* The upload *)

LEMMA RelayStarts == Init => RelayInv
BY RelayAssumption
DEF Init, RelayInv, UploadInv, AnswerInv, DeadlineInv, ResponsesInv, Response,
    Undecided, Unwound, bodyEnded

\* Each step of the put handler, its watcher, its client and the stop keeps what
\* the upload, its reply and its deadline say.
LEMMA UploadKeeps ==
  ASSUME RelayInv, UploadStep
  PROVE  UploadInv' /\ AnswerInv' /\ DeadlineInv'
<1> USE DEF RelayInv, UploadInv, AnswerInv, DeadlineInv, Undecided, Unwound, bodyEnded,
        Goto, clientVars, putVars, watchVars, genVars
<1>1. CASE PutStart
  BY <1>1 DEF PutStart
<1>2. CASE PutArm
  BY <1>2 DEF PutArm, deadlines
<1>3. CASE PutCopy
  BY <1>3 DEF PutCopy
<1>4. CASE PutRefused
  BY <1>4 DEF PutRefused
<1>5. CASE PutEnd
  BY <1>5 DEF PutEnd
<1>6. CASE PutCut
  BY <1>6 DEF PutCut, stoppingCut
<1>7. CASE PutClose
  BY <1>7 DEF PutClose
<1>8. CASE PutDisarm
  BY <1>8 DEF PutDisarm
<1>9. CASE PutAbort
  BY <1>9 DEF PutAbort, settledAs
<1>10. CASE PutReturn
  BY <1>10 DEF PutReturn
<1>11. CASE PutPanic
  BY <1>11 DEF PutPanic
<1>12. CASE IdleExpire
  BY <1>12 DEF IdleExpire
<1>13. CASE NextRequest
  BY <1>13 DEF NextRequest
<1>14. CASE WatchFire
  BY <1>14 DEF WatchFire, poke, canceled
<1>15. CASE WatchStop
  BY <1>15 DEF WatchStop
<1>16. CASE Send
  BY <1>16 DEF Send
<1>17. CASE SourceFaults
  BY <1>17 DEF SourceFaults
<1>18. CASE UploadBreaks
  BY <1>18 DEF UploadBreaks
<1>19. CASE PutResult
  BY <1>19 DEF PutResult
<1>20. CASE BeginStop
  BY <1>20 DEF BeginStop
<1>21. CASE Drain
  BY <1>21 DEF Drain
<1>22. CASE ForceClose
  BY <1>22 DEF ForceClose
<1> QED
  BY <1>1, <1>2, <1>3, <1>4, <1>5, <1>6, <1>7, <1>8, <1>9, <1>10, <1>11, <1>12, <1>13, <1>14, <1>15, <1>16, <1>17, <1>18, <1>19, <1>20, <1>21, <1>22
  DEF UploadStep, PutStep, Watcher, Runtime

\* A finalized generation does not change any more.
LEMMA FinalizedStays ==
  ASSUME RelayInv, UploadStep, gen = "finalized"
  PROVE  gen' = "finalized" /\ taken' = taken
BY DEF RelayInv, UploadInv, UploadStep, PutStart, PutStep, PutPanic, IdleExpire,
       NextRequest, Watcher, Send, SourceFaults, UploadBreaks, PutResult, Runtime,
       PutArm, PutCopy, PutRefused, PutEnd, PutCut, PutClose, PutDisarm, PutAbort,
       settledAs, PutReturn, WatchFire, WatchStop, BeginStop, Drain, ForceClose,
       genVars, Goto

-----------------------------------------------------------------------------
(* The responses *)

\* What a response knows is not disturbed by the upload.
LEMMA UploadKeepsResponses ==
  ASSUME RelayInv, UploadStep
  PROVE  ResponsesInv'
BY UploadLeavesResponses, FinalizedStays
DEF RelayInv, ResponsesInv, Response, getVars, readVars

\* A step of one response leaves the others alone.
LEMMA ResponseKeeps ==
  ASSUME RelayInv, NEW r \in Readers, ReaderStep(r)
  PROVE  ResponsesInv'
<1>1. UNCHANGED genVars
  BY ReadersOnlyRead
<1> USE DEF RelayInv, ResponsesInv, Response, genVars, getVars, readVars, End
<1>2. CASE GetOpen(r)
  BY <1>1, <1>2 DEF GetOpen, UploadInv
<1>3. CASE GetHeaders(r)
  BY <1>1, <1>3 DEF GetHeaders
<1>4. CASE GetCopy(r)
  BY <1>1, <1>4 DEF GetCopy
<1>5. CASE GetWriteFails(r) \/ GetTorn(r)
  BY <1>1, <1>5 DEF GetWriteFails, GetTorn
<1>6. CASE GetEnd(r)
  BY <1>1, <1>6 DEF GetEnd, sealed
<1>7. CASE GetPanic(r)
  BY <1>1, <1>7 DEF GetPanic
<1>8. CASE Receive(r)
  BY <1>1, <1>8 DEF Receive
<1>9. CASE LinkBreaks(r)
  BY <1>1, <1>9 DEF LinkBreaks
<1>10. CASE ReadResult(r)
  <2> DEFINE Sound(x) == x = "ok" => gen = "finalized" /\ got[r] = taken
  <2>1. \E x : cres' = [cres EXCEPT ![r] = x] /\ Sound(x)
    <3>1. CASE reply[r] # "none" /\ cres' = [cres EXCEPT ![r] = reply[r]]
      BY <3>1
    <3>2. ASSUME NEW t \in {trailer[r], FALSE}, frame[r] # "none",
                 t => whole(r), cres' = [cres EXCEPT ![r] = Concluded(r, t)]
          PROVE  \E x : cres' = [cres EXCEPT ![r] = x] /\ Sound(x)
      <4>1. Sound(Concluded(r, t))
        BY <3>2 DEF Concluded, complete, whole
      <4> QED
        BY <3>2, <4>1
    <3>3. ASSUME NEW f \in failures(r), cres' = [cres EXCEPT ![r] = f]
          PROVE  \E x : cres' = [cres EXCEPT ![r] = x] /\ Sound(x)
      BY <3>3 DEF failures
    <3> QED
      BY <1>10, <3>1, <3>2, <3>3 DEF ReadResult, satisfied
  <2>2. UNCHANGED <<getVars, got>>
    BY <1>10 DEF ReadResult
  <2> QED
    BY <1>1, <2>1, <2>2
<1> QED
  BY <1>2, <1>3, <1>4, <1>5, <1>6, <1>7, <1>8, <1>9, <1>10 DEF ReaderStep, GetStep

LEMMA RelayKeeps == RelayInv /\ [Next]_vars => RelayInv'
<1> SUFFICES ASSUME RelayInv, [Next]_vars PROVE RelayInv'
  OBVIOUS
<1>1. CASE UploadStep
  BY <1>1, UploadKeeps, UploadKeepsResponses DEF RelayInv
<1>2. ASSUME NEW r \in Readers, ReaderStep(r)
      PROVE  RelayInv'
  <2>1. UploadInv' /\ AnswerInv' /\ DeadlineInv'
    BY <1>2, ReadersOnlyRead
    DEF RelayInv, UploadInv, AnswerInv, DeadlineInv, bodyEnded, clientVars, putVars,
        watchVars, genVars
  <2> QED
    BY <1>2, <2>1, ResponseKeeps DEF RelayInv
<1>3. CASE UNCHANGED vars
  BY <1>3
  DEF vars, clientVars, putVars, watchVars, genVars, getVars, readVars, RelayInv,
      UploadInv, AnswerInv, DeadlineInv, ResponsesInv, Response, bodyEnded
<1> QED
  BY <1>1, <1>2, <1>3, NextSplits

-----------------------------------------------------------------------------

\* The invariant of an exchange.
THEOREM RelayInvariant == Spec => []RelayInv
BY RelayStarts, RelayKeeps, PTL DEF Spec

\* A read that looks complete is: the declared length or the trailer, whichever
\* framing the response has, was written for a finalized clip and every byte of
\* it has arrived.
THEOREM CompleteIsWhole == Spec => []CompleteMeansWhole
<1>1. RelayInv => CompleteMeansWhole
  BY DEF RelayInv, ResponsesInv, Response, UploadInv, bodyEnded, CompleteMeansWhole
<1> QED
  BY <1>1, RelayInvariant, PTL

\* A cut upload is never stored, and Put succeeds only for what is.
THEOREM OnlyWholeStored == Spec => []StoredIsWhole
<1>1. RelayInv => StoredIsWhole
  BY DEF RelayInv, AnswerInv, UploadInv, bodyEnded, StoredIsWhole
<1> QED
  BY <1>1, RelayInvariant, PTL

\* The watcher never fires into a connection that serves its next request.
THEOREM KeptConnectionReads == Spec => []NextRequestReads
<1>1. RelayInv => NextRequestReads
  BY DEF RelayInv, DeadlineInv, NextRequestReads
<1> QED
  BY <1>1, RelayInvariant, PTL

\* A body that the stop cut is not answered as the client's bad request.
THEOREM StopNotBlamed == Spec => StopIsNotBlamed
<1>1. RelayInv /\ [Next]_vars =>
        [ppc = "reading" /\ answer' = "400" => dl # "poked" /\ stop # "forced"]_vars
  <2> SUFFICES ASSUME RelayInv, Next, ppc = "reading", answer' = "400"
               PROVE  dl # "poked" /\ stop # "forced"
    OBVIOUS
  <2>1. answer = "none"
    BY DEF RelayInv, AnswerInv, Undecided
  <2>2. UploadStep
    BY <2>1, NextSplits, ReadersOnlyRead DEF putVars
  <2>3. PutCut
    BY <2>1, <2>2
    DEF UploadStep, PutStart, PutStep, PutPanic, IdleExpire, NextRequest, Watcher, Send,
        SourceFaults, UploadBreaks, PutResult, Runtime, PutArm, PutCopy, PutRefused,
        PutEnd, PutClose, PutDisarm, PutAbort, PutReturn, WatchFire, WatchStop,
        BeginStop, Drain, ForceClose, putVars
  <2>4. stop = "running"
    BY <2>3 DEF PutCut, stoppingCut
  <2> QED
    BY <2>4 DEF RelayInv, DeadlineInv
<1> QED
  BY <1>1, RelayInvariant, PTL DEF Spec, StopIsNotBlamed
=============================================================================
