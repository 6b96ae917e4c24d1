------------------------------- MODULE Paste --------------------------------
(***************************************************************************)
(* buff pasting a slot (cli/paste.go, cli/sink.go, archive/extract.go,     *)
(* client/get.go): the GET, the choice of a sink, the landing in a         *)
(* directory where other programs create and remove files, and the rescue  *)
(* of a consume-once delivery that collided.                               *)
(*                                                                         *)
(* The directory has one name the paste aims at, the sibling a rescue      *)
(* uses, ExtractNew's temporary tree, and "entry", the file the clip (or   *)
(* one member of its tar) has inside the target when that is a directory.  *)
(* Standard output is kept with them.                                      *)
(***************************************************************************)
EXTENDS Command

CONSTANT
  MaxChunks          \* bound: pieces of the body (the members of a tar)

ASSUME PasteAssumption == MaxChunks \in Nat \ {0}

Places  == {"stdout", "target", "entry", "beside", "temp"}
Foreign == {"file", "empty", "tree"}          \* other programs' files, directories
Content == {"absent", "part", "mine", "hollow"} \cup Foreign

VARIABLES
  kind, secret, gen, \* the clip: its kind, consume-once, its generation id
  dest, wait,        \* arguments: -o and the terminal; --wait
  sink,              \* the sink chosen
  names,             \* [Places -> Content]
  place,             \* where the landing goes
  here,              \* pieces this landing has written
  got, tail,         \* tornReader: pieces read; how the body ended
  at,                \* the paste's program point
  werr, lost,        \* its error; whether the error names the loss
  diverted           \* whether the rescue was tried

clipArgs  == <<kind, secret, gen, dest, wait>>
bodyVars  == <<here, got, tail>>
pasteVars == <<clipArgs, sink, names, place, bodyVars, at, werr, lost, diverted>>

PasteTypeOK ==
  /\ kind \in {"bytes", "file", "archive"} /\ secret \in BOOLEAN
  /\ gen \in {"good", "absent", "bad"}
  /\ dest \in {"pipe", "terminal", "dash", "path"} /\ wait \in BOOLEAN
  /\ sink \in {"none", "stdout", "file", "extract", "newdir", "save"}
  /\ names \in [Places -> Content] /\ place \in Places
  /\ here \in 0..MaxChunks /\ got \in 0..MaxChunks
  /\ tail \in {"open", "torn"}
  /\ at \in {"get", "write", "create", "copy", "lstat", "untar", "rename",
             "relstat", "discard", "back", "end", "over"}
  /\ werr \in {"none", "exist", "destexist", "entryexist", "fault", "canceled",
               "torn", "notfound", "consumed", "unreachable", "unavailable"}
  /\ lost \in BOOLEAN /\ diverted \in BOOLEAN

PasteInit ==
  LET active == act = "paste"
  IN  /\ kind \in IF active THEN {"bytes", "file", "archive"} ELSE {"bytes"}
      /\ secret \in IF active THEN BOOLEAN ELSE {FALSE}
      /\ gen \in IF secret THEN {"good", "absent", "bad"} ELSE {"good"}
      /\ dest \in IF active THEN {"pipe", "terminal", "dash", "path"} ELSE {"pipe"}
      /\ wait \in IF active THEN BOOLEAN ELSE {FALSE}
      /\ sink = "none" /\ names = [p \in Places |-> "absent"] /\ place = "stdout"
      /\ here = 0 /\ got = 0 /\ tail = "open"
      /\ at = "get" /\ werr = "none" /\ lost = FALSE /\ diverted = FALSE

-----------------------------------------------------------------------------
(* The landing *)

Pasting(point) == act = "paste" /\ ~Over /\ at = point

\* ExtractNew unpacks beside its name; Extract merges into a directory.
merging == place = "entry"
unpack == IF merging THEN "entry" ELSE "temp"

\* The sink goes on at another point, returns, or fails; a failing ExtractNew
\* discards its temporary tree on the way out.
goes(point) == at' = point /\ UNCHANGED werr
fails(err) ==
  /\ werr' = err
  /\ at' = IF at \in {"untar", "relstat"} /\ ~merging THEN "discard" ELSE "back"

isDir(p) == names[p] \in {"empty", "tree"}
put(p, c) == names' = [names EXCEPT ![p] = c]

chooseSink ==
  CASE dest = "dash" -> "stdout"
    [] dest = "path" -> IF kind = "archive" THEN "extract" ELSE "file"
    [] dest = "terminal" /\ kind = "archive" -> "newdir"
    [] dest = "terminal" /\ kind = "file"    -> "save"
    [] OTHER -> "stdout"

\* Get, and the choice of the sink once a clip is there.  With --wait the
\* server answers when there is something to read, or its own bound has passed.
PasteGet ==
  /\ Pasting("get")
  /\ \/ /\ sink' = chooseSink
        /\ goes("write")
        /\ UNCHANGED exit
     \/ /\ \E err \in {"notfound", "consumed", "unreachable", "unavailable"} :
             werr' = err /\ Returns(err)
        /\ at' = "over"
        /\ UNCHANGED sink
  /\ UNCHANGED <<clipArgs, names, place, bodyVars, lost, diverted, act, signals>>

\* A sink's Write up to the call that decides: stat of a -o target, and the
\* opening of the directory it names.
SinkWrite ==
  /\ Pasting("write")
  /\ \/ CASE sink = "stdout" -> place' = "stdout" /\ goes("copy")
          [] sink = "save"   -> place' = "target" /\ goes("create")
          [] sink = "newdir" -> place' = "target" /\ goes("lstat")
          [] sink = "file" ->
               IF isDir("target")
                 THEN /\ place' = "entry"
                      /\ IF kind = "bytes" THEN fails("fault") ELSE goes("create")
                 ELSE place' = "target" /\ goes("create")
          [] sink = "extract" ->
               IF isDir("target") THEN place' = "entry" /\ goes("untar")
               ELSE /\ place' = "target"
                    /\ IF names["target"] = "absent" THEN goes("lstat") ELSE fails("fault")
     \/ sink # "stdout" /\ place' = "target" /\ fails("fault")
  /\ UNCHANGED <<clipArgs, sink, names, bodyVars, lost, diverted, commandVars>>

\* openInDir, or os.Create of the -o path: only a save and a rescue are
\* exclusive.  A failing chmod leaves the empty file behind.
exclusiveNot == FALSE
exclusive == sink = "save"

CreateFile ==
  /\ Pasting("create")
  /\ \/ /\ names[place] = "absent" \/ (~exclusive /\ names[place] = "file")
        /\ place = "entry" => isDir("target")
        /\ put(place, "part")
        /\ goes("copy") \/ fails("fault")
     \/ /\ exclusive /\ names[place] # "absent"
        /\ fails("exist") /\ UNCHANGED names
     \/ fails("fault") /\ UNCHANGED names
  /\ UNCHANGED <<clipArgs, sink, place, bodyVars, lost, diverted, commandVars>>

\* What a landing amounts to once the body has ended.
finished == IF here = MaxChunks THEN "mine" ELSE "hollow"

\* One piece through the body: read and written, torn under the read, or not
\* written.
Piece(into) ==
  /\ got < MaxChunks
  /\ \/ /\ got' = got + 1 /\ here' = here + 1 /\ UNCHANGED tail
        /\ put(into, "part") /\ goes(at)
     \/ /\ tail' = "torn" /\ UNCHANGED <<got, here, names>>
        /\ \E err \in {"torn", "fault"} : fails(err)   \* as the sink labels it
     \/ /\ got' = got + 1 /\ UNCHANGED <<here, tail, names>>
        /\ fails("fault")

\* copyClose, and stdout's io.Copy.
CopyBody ==
  /\ Pasting("copy")
  /\ \/ Piece(place)
     \/ /\ got = MaxChunks
        /\ \/ put(place, finished) /\ goes("back") /\ UNCHANGED tail
           \/ place # "stdout" /\ fails("fault") /\ UNCHANGED <<names, tail>>
           \/ tail' = "torn" /\ fails("torn") /\ UNCHANGED names
        /\ UNCHANGED <<here, got>>
  /\ UNCHANGED <<clipArgs, sink, place, lost, diverted, commandVars>>

-----------------------------------------------------------------------------
(* archive.ExtractNew and Extract *)

\* The refusal of a visibly taken name, then the temporary tree.
Lstat ==
  /\ Pasting("lstat")
  /\ \/ names[place] # "absent" /\ fails("destexist") /\ UNCHANGED names
     \/ names[place] = "absent" /\ put("temp", "part") /\ goes("untar")
     \/ fails("fault") /\ UNCHANGED names
  /\ UNCHANGED <<clipArgs, sink, place, bodyVars, lost, diverted, commandVars>>

\* extract: member by member, the context checked before each, each created
\* exclusively, up to the tar's end.  A body already drained is an empty tar.
Untar ==
  /\ Pasting("untar")
  /\ IF Canceled
       THEN fails("canceled") /\ UNCHANGED <<names, bodyVars>>
       ELSE \/ /\ merging /\ here = 0 /\ names["entry"] # "absent"
               /\ fails("entryexist") /\ got' = 1 /\ UNCHANGED <<names, here, tail>>
            \/ /\ ~(merging /\ here = 0 /\ names["entry"] # "absent")
               /\ merging => isDir("target")
               /\ Piece(unpack)
            \/ /\ merging /\ ~isDir("target")
               /\ fails("fault") /\ UNCHANGED <<names, bodyVars>>
            \/ /\ got = MaxChunks
               /\ IF merging
                    THEN put("entry", finished) /\ goes("back")
                    ELSE goes("rename") /\ UNCHANGED names
               /\ UNCHANGED bodyVars
  /\ UNCHANGED <<clipArgs, sink, place, lost, diverted, commandVars>>

\* The publishing rename: onto nothing or an empty directory it succeeds.
Rename ==
  /\ Pasting("rename")
  /\ \/ /\ names[place] \in {"absent", "empty"}
        /\ names' = [names EXCEPT ![place] = finished, !["temp"] = "absent"]
        /\ goes("back")
     \/ goes("relstat") /\ UNCHANGED names
  /\ UNCHANGED <<clipArgs, sink, place, bodyVars, lost, diverted, commandVars>>

\* The failed rename is the refusal if the name is there now.
Relstat ==
  /\ Pasting("relstat")
  /\ fails(IF names[place] # "absent" THEN "destexist" ELSE "fault")
  /\ UNCHANGED <<clipArgs, sink, names, place, bodyVars, lost, diverted,
                 commandVars>>

\* ExtractNew's deferred RemoveAll, best effort.
DiscardTemp ==
  /\ Pasting("discard")
  /\ put("temp", "absent") \/ UNCHANGED names
  /\ goes("back")
  /\ UNCHANGED <<clipArgs, sink, place, bodyVars, lost, diverted, commandVars>>

-----------------------------------------------------------------------------
(* The paste flow after its sink has returned *)

pristineAlways == tail = "open"
pristine == got = 0 /\ tail = "open"

isCollisionFile(err) == err = "exist"
isCollision(err) == err \in {"exist", "destexist"}

\* divertConsumeOnce: a sink that picked its own name, a collision, and a
\* generation id that makes a usable sibling.
salvages == /\ werr # "none" /\ secret /\ pristine /\ ~diverted
            /\ sink \in {"save", "newdir"} /\ isCollision(werr) /\ gen = "good"

Divert ==
  /\ Pasting("back")
  /\ salvages
  /\ diverted' = TRUE
  /\ place' = "beside" /\ here' = 0
  /\ werr' = "none"
  /\ at' = IF sink = "save" THEN "create" ELSE "lstat"
  /\ UNCHANGED <<clipArgs, sink, names, got, tail, lost, commandVars>>

\* A torn read outranks what the sink made of it; a spent delivery that did
\* not land is named lost.
standing == IF tail = "torn" THEN "torn" ELSE werr
losesNot == FALSE
loses == secret /\ standing # "none"

PasteReturn ==
  /\ Pasting("back")
  /\ ~salvages
  /\ at' = "over"
  /\ werr' = standing
  /\ lost' = loses
  /\ Returns(standing)
  /\ UNCHANGED <<clipArgs, sink, names, place, bodyVars, diverted, act, signals>>

-----------------------------------------------------------------------------
(* Other programs in the directory (external): they create and remove their  *)
(* own files, not the paste's.                                               *)

ForeignCreate ==
  /\ act = "paste" /\ ~Over
  /\ \/ names["target"] = "absent" /\ \E c \in Foreign : put("target", c)
     \/ names["entry"] = "absent" /\ isDir("target") /\ put("entry", "file")
  /\ UNCHANGED <<clipArgs, sink, place, bodyVars, at, werr, lost, diverted,
                 commandVars>>

ForeignRemove ==
  /\ act = "paste" /\ ~Over
  /\ \/ /\ names["target"] \in Foreign /\ names["entry"] = "absent"
        /\ put("target", "absent")
     \/ names["entry"] = "file" /\ put("entry", "absent")
  /\ UNCHANGED <<clipArgs, sink, place, bodyVars, at, werr, lost, diverted,
                 commandVars>>

Landing == SinkWrite \/ CreateFile \/ CopyBody \/ Lstat \/ Untar \/ Rename
           \/ Relstat \/ DiscardTemp \/ Divert \/ PasteReturn

PasteNext == PasteGet \/ Landing \/ ForeignCreate \/ ForeignRemove

\* What needs nobody to write the slot first.
PasteRuns == Landing \/ (PasteGet /\ (~wait \/ Canceled))
AwaitsClip == act = "paste" /\ at = "get" /\ wait

-----------------------------------------------------------------------------
(* Properties *)

\* A paste that succeeds has landed the whole clip where it said, and no name
\* ever shows a tree or file completed from a drained body (the pristine gate
\* in paste.go).
Landed ==
  /\ act = "paste" /\ exit = 0 => names[place] = "mine"
  /\ \A p \in Places : names[p] # "hollow"

\* A paste never replaces what another program put in the directory: O_EXCL,
\* the refusing rename and extractReg keep it.  Only -o overwrites a file: the
\* one it names, or the one of the clip's name in the directory it names.
NeverClobbers ==
  [][\A p \in Places :
       names[p] \in {"file", "tree"} /\ names'[p] # names[p] =>
         \/ UNCHANGED <<at, got>>                         \* its owner
         \/ sink = "file" /\ names[p] = "file"]_pasteVars

\* A consume-once value is spent when the paste gets it: it lands, or the paste
\* fails and says it is lost.  A collision with an untouched body and a usable
\* generation id never loses it where buff chose the name.
LossReported ==
  act = "paste" /\ Over /\ signals < 2 /\ secret /\ sink # "none" =>
    \/ exit = 0 /\ names[place] = "mine"
    \/ /\ exit # 0 /\ lost
       /\ ~(sink \in {"save", "newdir"} /\ gen = "good" /\ got = 0
            /\ werr \in {"exist", "destexist"})
=============================================================================
