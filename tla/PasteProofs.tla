---------------------------- MODULE PasteProofs -----------------------------
(***************************************************************************)
(* The paste (cli/paste.go, cli/sink.go, archive/extract.go), for bodies   *)
(* of any length: what it calls landed is whole, nothing of another        *)
(* program is replaced, and a spent delivery is landed or named lost.      *)
(***************************************************************************)
EXTENDS Main, TLAPS

Collisions == {"exist", "destexist"}
Errs == Collisions \cup {"none", "entryexist", "fault", "canceled", "torn",
                         "notfound", "consumed", "unreachable", "unavailable"}

\* Program points before the sink has returned.
Early   == {"get", "write", "create", "copy", "lstat", "untar", "rename"}
Renames == {"lstat", "untar", "rename", "relstat", "discard"}

\* The body: a landing that goes on has written all it read.
PieceInv ==
  /\ here \in Nat /\ got \in Nat
  /\ at \in Early => here = got
  /\ at \in {"get", "write", "create", "lstat"} => got = 0
  /\ at = "rename" => got = MaxChunks
  /\ at \in Early \cup {"relstat"} => werr = "none"
  /\ at = "discard" => werr # "none"
  /\ tail \in {"open", "torn"} /\ werr \in Errs
  /\ tail = "torn" => at \in {"discard", "back", "over"} /\ werr # "none"

\* The directory: who wrote what, while other programs use it too.
NamesInv ==
  /\ names \in [Places -> Content]
  /\ place \in Places \ {"temp"}
  /\ \A p \in Places : names[p] # "hollow"
  /\ names["temp"] \in {"absent", "part"}
  /\ names["stdout"] \in {"absent", "part", "mine"}
  /\ at = "copy" /\ place # "stdout" => names[place] = "part"
  /\ at = "untar" /\ merging /\ here > 0 => names["entry"] = "part"
  /\ at = "back" /\ werr = "none" => names[place] = "mine"

\* The rescue: it happens once, beside the taken name, where nobody else is.
RescueInv ==
  /\ sink \in {"none", "stdout", "file", "extract", "newdir", "save"}
  /\ at = "create" => sink \in {"save", "file"}
  /\ ~diverted => place # "beside" /\ names["beside"] = "absent"
  /\ diverted => at \notin {"get", "write"}
  /\ diverted => place = "beside" /\ sink \in {"save", "newdir"}
                 /\ werr \notin Collisions
  /\ diverted /\ at \in {"create"} \cup (Renames \ {"discard"}) =>
       names["beside"] = "absent"
  /\ at = "get" <=> sink = "none" /\ at # "over"

\* The end of a run that pastes.
EndInv ==
  /\ at # "get" => act = "paste"
  /\ at = "over" => Over
  /\ act = "paste" /\ Over /\ at # "over" => signals = 2 /\ exit # 0
  /\ act = "paste" /\ exit = 0 => names[place] = "mine" /\ werr = "none"
  /\ act = "paste" /\ at = "over" /\ werr # "none" => exit # 0
  /\ act = "paste" /\ at = "over" /\ werr = "none" => exit = 0 \/ sink = "none"
  /\ at = "over" /\ sink # "none" /\ secret /\ werr # "none" =>
       lost /\ ~(sink \in {"save", "newdir"} /\ gen = "good" /\ got = 0
                 /\ werr \in Collisions)
  /\ signals \in 0..2

PasteInv == PieceInv /\ NamesInv /\ RescueInv /\ EndInv

-----------------------------------------------------------------------------
(* Steps that are not the paste's *)

\* The process starts with an empty directory and nothing read.
LEMMA PasteStarts == Init => PasteInv
BY DEF Init, CommandInit, PasteInit, PasteInv, PieceInv, NamesInv, RescueInv, EndInv,
       Early, Renames, Places, Content, Foreign, Collisions, Errs, merging, Over, Running

\* A copy's or a server's step, or a question, is of a run that does not paste.
LEMMA OthersDoNotPaste ==
  ASSUME CopyNext \/ ServeNext \/ Ask
  PROVE  act # "paste" /\ UNCHANGED <<act, signals>>
<1>1. CASE CopyNext
  BY <1>1 DEF CopyNext, Archiver, Walk, WalkCanceled, WalkEnds, EntryShort,
              WriteClosed, Loop, PipePiece, PipeEnds, SourcePiece, SourceEnds,
              bodyEnds, Flow, CopyOpen, Dial, PutReplied, PutFails, CleanUp,
              JoinClose, CopyReturn, LinkDrops, ServerRefuses, ServerStores,
              OtherWrites, Archiving, Transferring, commandVars
<1>2. CASE ServeNext
  BY <1>2 DEF ServeNext, Runtime, Boot, Bridge, ServeReturns, Shutdown, Drained,
              RunReturns, ServeFaults, Tick, Work, Acquire, Acquired, Enter, Leave,
              Release, Released, Evicted, Snapshot, Copied, Peek, Looked,
              LockRegistry, LockGate, ReaperReturns, Accept, EndFollow, EndTransfer,
              Move, Serving, rest, commandVars
<1>3. CASE Ask
  BY <1>3 DEF Ask
<1> QED
  BY <1>1, <1>2, <1>3

LEMMA OthersKeepPaste ==
  ASSUME PasteInv, CopyNext \/ ServeNext \/ Ask, UNCHANGED pasteVars
  PROVE  PasteInv'
<1>1. act # "paste" /\ UNCHANGED <<act, signals>> /\ at = "get"
  BY OthersDoNotPaste DEF PasteInv, EndInv
<1> QED
  BY <1>1
  DEF PasteInv, PieceInv, NamesInv, RescueInv, EndInv, pasteVars, clipArgs, bodyVars,
      merging

\* A signal cancels; the second one ends the run where it is.
LEMMA InterruptKeepsPaste ==
  ASSUME PasteInv, Interrupt, UNCHANGED pasteVars
  PROVE  PasteInv'
BY DEF Interrupt, PasteInv, PieceInv, NamesInv, RescueInv, EndInv, pasteVars,
       clipArgs, bodyVars, merging, Canceled, Over, Running

-----------------------------------------------------------------------------
(* The paste's steps *)

\* A reported error is a status other than 0, and every return ends the run.
LEMMA PasteStatus ==
  ASSUME NEW err \in Errs, Returns(err)
  PROVE  exit' # Running /\ (exit' = 0 <=> err = "none")
BY DEF Returns, clientExit, exitCode, Running, Errs, Collisions

\* A step of a run that goes on leaves the facts about its end alone.
LEMMA GoesOn ==
  ASSUME PasteInv, act = "paste", ~Over, UNCHANGED commandVars, at' # "over"
  PROVE  EndInv'
BY DEF PasteInv, EndInv, Over, Running, commandVars

\* The GET, and a sink up to the call that decides.
LEMMA GetKeeps ==
  ASSUME PasteInv, PasteGet \/ SinkWrite
  PROVE  PasteInv'
<1> USE PasteAssumption DEF PasteInv, Early, Renames, Pasting, goes, fails, put,
        clipArgs, bodyVars
<1>1. CASE PasteGet
  <2>1. PieceInv'
    BY <1>1 DEF PieceInv, Errs, Collisions, PasteGet, chooseSink, Returns
  <2>2. NamesInv'
    BY <1>1 DEF PieceInv, NamesInv, RescueInv, Places, Content, Foreign, merging,
                isDir, PasteGet, chooseSink, Returns
  <2>3. RescueInv'
    BY <1>1 DEF PieceInv, NamesInv, RescueInv, Places, Collisions, PasteGet,
                chooseSink, Returns
  <2>4. EndInv'
    <3>1. CASE at' # "over"
      BY <1>1, <3>1, GoesOn DEF PasteGet, commandVars
    <3>2. CASE at' = "over"
      <4>1. PICK err \in {"notfound", "consumed", "unreachable", "unavailable"} :
              werr' = err /\ Returns(err)
        BY <1>1, <3>2 DEF PasteGet
      <4>2. exit' # 0 /\ exit' # Running /\ werr' # "none"
        <5>1. Returns(err) /\ err \in Errs /\ err # "none"
          BY <4>1 DEF Errs
        <5> QED
          BY <4>1, <5>1, PasteStatus
      <4> QED
        BY <1>1, <3>2, <4>2 DEF PasteGet, RescueInv, EndInv, Over
    <3> QED
      BY <3>1, <3>2
  <2> QED
    BY <2>1, <2>2, <2>3, <2>4
<1>2. CASE SinkWrite
  <2>1. sink \in {"stdout", "file", "extract", "newdir", "save"} /\ at = "write"
    BY <1>2 DEF SinkWrite, RescueInv
  <2>2. /\ at' \in {"copy", "create", "lstat", "untar", "back"}
        /\ place' \in {"stdout", "target", "entry"}
        /\ IF at' = "back" THEN werr' = "fault" ELSE UNCHANGED werr
        /\ at' = "create" => sink \in {"save", "file"}
        /\ at' = "copy" => place' = "stdout"
    <3>1. CASE sink \in {"stdout", "newdir", "save"}
      BY <1>2, <2>1, <3>1 DEF SinkWrite
    <3>2. CASE sink = "file"
      BY <1>2, <2>1, <3>2 DEF SinkWrite
    <3>3. CASE sink = "extract"
      BY <1>2, <2>1, <3>3 DEF SinkWrite
    <3> QED
      BY <2>1, <3>1, <3>2, <3>3
  <2>3. /\ UNCHANGED <<clipArgs, sink, names, bodyVars, lost, diverted, commandVars>>
        /\ act = "paste" /\ ~Over
    BY <1>2 DEF SinkWrite
  <2>4. PieceInv'
    BY <2>1, <2>2, <2>3 DEF PieceInv, Errs
  <2>5. NamesInv'
    BY <2>1, <2>2, <2>3 DEF PieceInv, NamesInv, Places
  <2>6. RescueInv'
    BY <2>1, <2>2, <2>3 DEF RescueInv, Collisions
  <2>7. EndInv'
    BY <2>2, <2>3, GoesOn
  <2> QED
    BY <2>4, <2>5, <2>6, <2>7
<1> QED
  BY <1>1, <1>2

\* A file: created as its sink asks, then filled.
LEMMA FileKeeps ==
  ASSUME PasteInv, CreateFile \/ CopyBody
  PROVE  PasteInv'
<1> USE PasteAssumption DEF PasteInv, Early, Renames, Pasting, goes, fails, put,
        clipArgs, bodyVars
<1>1. CASE CreateFile
  <2>1. PieceInv'
    BY <1>1 DEF PieceInv, Errs, Collisions, CreateFile, exclusive
  <2>2. NamesInv'
    BY <1>1 DEF PieceInv, NamesInv, RescueInv, Places, Content, Foreign, merging,
                isDir, CreateFile, exclusive
  <2>3. RescueInv'
    BY <1>1 DEF PieceInv, NamesInv, RescueInv, Places, Collisions, CreateFile,
                exclusive
  <2>4. EndInv'
    BY <1>1, GoesOn DEF CreateFile, exclusive
  <2> QED
    BY <2>1, <2>2, <2>3, <2>4
<1>2. CASE CopyBody
  <2>1. PieceInv'
    BY <1>2 DEF PieceInv, Errs, Collisions, CopyBody, Piece, finished
  <2>2. NamesInv'
    BY <1>2 DEF PieceInv, NamesInv, RescueInv, Places, Content, Foreign, merging,
                isDir, CopyBody, Piece, finished
  <2>3. RescueInv'
    BY <1>2 DEF PieceInv, NamesInv, RescueInv, Places, Collisions, CopyBody, Piece,
                finished
  <2>4. EndInv'
    BY <1>2, GoesOn DEF CopyBody, Piece, finished
  <2> QED
    BY <2>1, <2>2, <2>3, <2>4
<1> QED
  BY <1>1, <1>2

\* ExtractNew and Extract.
LEMMA TreeKeeps ==
  ASSUME PasteInv, Lstat \/ Untar \/ Rename \/ Relstat \/ DiscardTemp
  PROVE  PasteInv'
<1> USE PasteAssumption DEF PasteInv, Early, Renames, Pasting, goes, fails, put,
        clipArgs, bodyVars
<1>1. CASE Lstat
  <2>1. PieceInv'
    BY <1>1 DEF PieceInv, Errs, Collisions, Lstat
  <2>2. NamesInv'
    BY <1>1 DEF PieceInv, NamesInv, RescueInv, Places, Content, Foreign, merging,
                isDir, Lstat
  <2>3. RescueInv'
    BY <1>1 DEF PieceInv, NamesInv, RescueInv, Places, Collisions, Lstat
  <2>4. EndInv'
    BY <1>1, GoesOn DEF Lstat
  <2> QED
    BY <2>1, <2>2, <2>3, <2>4
<1>2. CASE Untar
  <2>1. PieceInv'
    BY <1>2 DEF PieceInv, Errs, Collisions, Untar, Piece, unpack, finished
  <2>2. NamesInv'
    BY <1>2 DEF PieceInv, NamesInv, RescueInv, Places, Content, Foreign, merging,
                isDir, Untar, Piece, unpack, finished
  <2>3. RescueInv'
    BY <1>2 DEF PieceInv, NamesInv, RescueInv, Places, Collisions, Untar, Piece,
                unpack, finished
  <2>4. EndInv'
    BY <1>2, GoesOn DEF Untar, Piece, unpack, finished
  <2> QED
    BY <2>1, <2>2, <2>3, <2>4
<1>3. CASE Rename
  <2>1. PieceInv'
    BY <1>3 DEF PieceInv, Errs, Collisions, Rename, finished
  <2>2. NamesInv'
    BY <1>3 DEF PieceInv, NamesInv, RescueInv, Places, Content, Foreign, merging,
                isDir, Rename, finished
  <2>3. RescueInv'
    BY <1>3 DEF PieceInv, NamesInv, RescueInv, Places, Collisions, Rename, finished
  <2>4. EndInv'
    BY <1>3, GoesOn DEF Rename, finished
  <2> QED
    BY <2>1, <2>2, <2>3, <2>4
<1>4. CASE Relstat
  <2>1. PieceInv'
    BY <1>4 DEF PieceInv, Errs, Collisions, Relstat
  <2>2. NamesInv'
    BY <1>4 DEF PieceInv, NamesInv, RescueInv, Places, Content, Foreign, merging,
                isDir, Relstat
  <2>3. RescueInv'
    BY <1>4 DEF PieceInv, NamesInv, RescueInv, Places, Collisions, Relstat
  <2>4. EndInv'
    BY <1>4, GoesOn DEF Relstat
  <2> QED
    BY <2>1, <2>2, <2>3, <2>4
<1>5. CASE DiscardTemp
  <2>1. PieceInv'
    BY <1>5 DEF PieceInv, Errs, Collisions, DiscardTemp
  <2>2. NamesInv'
    BY <1>5 DEF PieceInv, NamesInv, RescueInv, Places, Content, Foreign, merging,
                isDir, DiscardTemp
  <2>3. RescueInv'
    BY <1>5 DEF PieceInv, NamesInv, RescueInv, Places, Collisions, DiscardTemp
  <2>4. EndInv'
    BY <1>5, GoesOn DEF DiscardTemp
  <2> QED
    BY <2>1, <2>2, <2>3, <2>4
<1> QED
  BY <1>1, <1>2, <1>3, <1>4, <1>5

\* The rescue and the return.
LEMMA ReturnKeeps ==
  ASSUME PasteInv, Divert \/ PasteReturn
  PROVE  PasteInv'
<1> USE PasteAssumption DEF PasteInv, Early, Renames, Pasting, goes, fails, put,
        clipArgs, bodyVars
<1>1. CASE Divert
  <2>1. PieceInv'
    BY <1>1 DEF PieceInv, Errs, Collisions, Divert, salvages, pristine, isCollision
  <2>2. NamesInv'
    BY <1>1 DEF PieceInv, NamesInv, RescueInv, Places, Content, Foreign, merging,
                isDir, Divert, salvages, pristine, isCollision
  <2>3. RescueInv'
    BY <1>1 DEF PieceInv, NamesInv, RescueInv, Places, Collisions, Divert, salvages,
                pristine, isCollision
  <2>4. EndInv'
    BY <1>1, GoesOn DEF Divert, salvages, pristine, isCollision
  <2> QED
    BY <2>1, <2>2, <2>3, <2>4
<1>2. CASE PasteReturn
  <2>1. PieceInv'
    BY <1>2 DEF PieceInv, Errs, Collisions, PasteReturn, salvages, pristine,
                isCollision, standing, loses, Returns
  <2>2. NamesInv'
    BY <1>2 DEF PieceInv, NamesInv, RescueInv, Places, Content, Foreign, merging,
                isDir, PasteReturn, salvages, pristine, isCollision, standing, loses,
                Returns
  <2>3. RescueInv'
    BY <1>2 DEF PieceInv, NamesInv, RescueInv, Places, Collisions, PasteReturn,
                salvages, pristine, isCollision, standing, loses, Returns
  <2>4. EndInv'
    <3>1. standing \in Errs /\ (standing = "none" => werr = "none" /\ tail = "open")
      BY DEF standing, PieceInv, Errs, Collisions
    <3>2. /\ exit' = 0 <=> standing = "none"
          /\ exit' # Running
      <4>1. Returns(standing)
        BY <1>2 DEF PasteReturn
      <4> QED
        BY <3>1, <4>1, PasteStatus
    <3>3. /\ at = "back" /\ at' = "over" /\ act = "paste" /\ werr' = standing
          /\ secret /\ standing # "none" => lost'
          /\ UNCHANGED <<clipArgs, sink, names, place, bodyVars, diverted, act, signals>>
      BY <1>2 DEF PasteReturn, loses
    <3>4. standing = "none" => names[place] = "mine"
      BY <3>1, <3>3 DEF NamesInv
    <3>5. ~(/\ secret /\ sink \in {"save", "newdir"} /\ gen = "good" /\ got = 0
            /\ standing \in Collisions)
      BY <1>2 DEF PasteReturn, salvages, pristine, isCollision, standing, Collisions,
                  RescueInv, PieceInv
    <3> QED
      BY <3>2, <3>3, <3>4, <3>5 DEF EndInv, Over
  <2> QED
    BY <2>1, <2>2, <2>3, <2>4
<1> QED
  BY <1>1, <1>2

\* Other programs use the directory.
LEMMA WorldKeeps ==
  ASSUME PasteInv, ForeignCreate \/ ForeignRemove
  PROVE  PasteInv'
<1> USE PasteAssumption DEF PasteInv, Early, Renames, Pasting, goes, fails, put,
        clipArgs, bodyVars
<1>1. CASE ForeignCreate
  <2>1. PieceInv'
    BY <1>1 DEF PieceInv, Errs, Collisions, ForeignCreate
  <2>2. NamesInv'
    BY <1>1 DEF PieceInv, NamesInv, RescueInv, Places, Content, Foreign, merging,
                isDir, ForeignCreate
  <2>3. RescueInv'
    BY <1>1 DEF PieceInv, NamesInv, RescueInv, Places, Collisions, ForeignCreate
  <2>4. EndInv'
    BY <1>1, GoesOn DEF EndInv, ForeignCreate
  <2> QED
    BY <2>1, <2>2, <2>3, <2>4
<1>2. CASE ForeignRemove
  <2>1. PieceInv'
    BY <1>2 DEF PieceInv, Errs, Collisions, ForeignRemove
  <2>2. NamesInv'
    BY <1>2 DEF PieceInv, NamesInv, RescueInv, Places, Content, Foreign, merging,
                isDir, ForeignRemove
  <2>3. RescueInv'
    BY <1>2 DEF PieceInv, NamesInv, RescueInv, Places, Collisions, ForeignRemove
  <2>4. EndInv'
    BY <1>2, GoesOn DEF EndInv, ForeignRemove
  <2> QED
    BY <2>1, <2>2, <2>3, <2>4
<1> QED
  BY <1>1, <1>2

LEMMA PasteKeeps == PasteInv /\ [Next]_vars => PasteInv'
<1> SUFFICES ASSUME PasteInv, [Next]_vars PROVE PasteInv'
  OBVIOUS
<1>1. CASE PasteNext
  BY <1>1, GetKeeps, FileKeeps, TreeKeeps, ReturnKeeps, WorldKeeps
  DEF PasteNext, Landing
<1>2. CASE (CopyNext \/ ServeNext \/ Ask) /\ UNCHANGED pasteVars
  BY <1>2, OthersKeepPaste
<1>3. CASE Interrupt /\ UNCHANGED pasteVars
  BY <1>3, InterruptKeepsPaste
<1>4. CASE UNCHANGED vars
  BY <1>4
  DEF vars, commandVars, PasteInv, PieceInv, NamesInv, RescueInv, EndInv, pasteVars,
      clipArgs, bodyVars, merging, Over
<1> QED
  BY <1>1, <1>2, <1>3, <1>4 DEF Next

-----------------------------------------------------------------------------

\* The invariant of a paste: what each program point knows of the body, the
\* directory and the rescue.
THEOREM PasteInvariant == Spec => []PasteInv
BY PasteStarts, PasteKeeps, PTL DEF Spec

\* Success means that the clip is whole at its place, whatever its length and
\* whoever else uses the directory, and a drained body completes nothing.
THEOREM LandedWhole == Spec => []Landed
<1>1. PasteInv => Landed
  BY DEF PasteInv, NamesInv, EndInv, Landed
<1> QED
  BY <1>1, PasteInvariant, PTL

\* A spent delivery lands or is named lost, and the rescue is never skipped.
THEOREM LossIsReported == Spec => []LossReported
<1>1. PasteInv => LossReported
  BY DEF PasteInv, EndInv, LossReported, Collisions
<1> QED
  BY <1>1, PasteInvariant, PTL

\* Only the steps that create, fill or publish change a name, and each finds
\* its name free, its own, or a file given with -o.
LEMMA StepNeverClobbers ==
  ASSUME PasteInv, PasteNext, NEW p \in Places, names[p] \in {"file", "tree"},
         names'[p] # names[p], ~UNCHANGED <<at, got>>
  PROVE  sink = "file" /\ names[p] = "file"
<1> USE DEF PasteInv, NamesInv, put, Pasting
<1>1. CASE CreateFile
  BY <1>1 DEF CreateFile, exclusive, RescueInv
<1>2. CASE CopyBody
  BY <1>2 DEF CopyBody, Piece
<1>3. CASE Lstat \/ DiscardTemp
  BY <1>3 DEF Lstat, DiscardTemp
<1>4. CASE Untar
  BY <1>4, PasteAssumption DEF Untar, Piece, unpack, PieceInv, Early, merging
<1>5. CASE Rename
  BY <1>5 DEF Rename
<1>6. CASE PasteGet \/ SinkWrite \/ Relstat \/ Divert \/ PasteReturn
  BY <1>6 DEF PasteGet, SinkWrite, Relstat, Divert, PasteReturn
<1>7. CASE ForeignCreate \/ ForeignRemove
  BY <1>7 DEF ForeignCreate, ForeignRemove, bodyVars
<1> QED
  BY <1>1, <1>2, <1>3, <1>4, <1>5, <1>6, <1>7 DEF PasteNext, Landing

\* No step of a paste replaces another program's file or tree, except a file
\* where -o points, whatever the order in which both create, rename and remove.
THEOREM NothingClobbered == Spec => NeverClobbers
<1>1. PasteInv /\ [Next]_vars =>
        [\A p \in Places :
           names[p] \in {"file", "tree"} /\ names'[p] # names[p] =>
             \/ UNCHANGED <<at, got>>
             \/ sink = "file" /\ names[p] = "file"]_pasteVars
  <2> SUFFICES ASSUME PasteInv, [Next]_vars, ~UNCHANGED pasteVars,
                      NEW p \in Places, names[p] \in {"file", "tree"},
                      names'[p] # names[p], ~UNCHANGED <<at, got>>
               PROVE  sink = "file" /\ names[p] = "file"
    OBVIOUS
  <2>1. PasteNext
    BY DEF Next, vars
  <2> QED
    BY <2>1, StepNeverClobbers
<1> QED
  BY <1>1, PasteInvariant, PTL DEF Spec, NeverClobbers
=============================================================================
