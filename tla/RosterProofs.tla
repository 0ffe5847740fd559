---------------------------- MODULE RosterProofs ----------------------------
(***************************************************************************)
(* What a roster is made of: the game files it is read against, and the    *)
(* lookups that fetch it from Krooster.                                    *)
(*                                                                         *)
(* Game files, for any commits and tables of the fields' types: what the   *)
(* tool passes and what the server serves is whole.  A run of the tool     *)
(* unsettles the disk before its first write and settles it with its       *)
(* sidecar, so files behind a settled sidecar are of its commit            *)
(* (WrittenInv), and a server that saw no write read those (LoadedInv).    *)
(*                                                                         *)
(* Imports, for any export and model: every entry is accounted for.  After *)
(* each entry, those read are in the roster, unknown, replaced or not      *)
(* owned, and who is in it is as the last entry has it or told of          *)
(* (BuilderInv).                                                           *)
(*                                                                         *)
(* Lookups, for any requests, names, spellings, places and times: Krooster *)
(* is spared, and memory is true.  Both rest on one fact about fetches:    *)
(* while a name is being fetched, nobody else fetches it and memory has    *)
(* nothing of it.  So the answer a fetch brings is not evicted or replaced *)
(* before it is kept, and an answer that is not in memory any more has had *)
(* its time (AnswersAge).                                                  *)
(***************************************************************************)
EXTENDS Krooster, GameFiles, FiniteSetTheorems, WellFoundedInduction, TLAPS

-----------------------------------------------------------------------------
(* Game data: what is on disk, whom it was written by, and who read it.     *)

\* What the tool has fetched is of the commit it was run for, and there is no
\* time between its first write and its sidecar at which the disk looks settled.
WrittenInv ==
    /\ settled => sidecar \in Commits /\ \A f \in FileNames : disk[f] = sidecar
    /\ tool.step \in {"sync", "force"} => tool.at = 1
    /\ tool.step \in {"fetch", "write"} =>
          /\ tool.at \in 1 .. Len(Files)
          /\ \A i \in 1 .. tool.at - 1 : disk[Files[i]] = tool.commit
    /\ tool.step \in {"write", "record", "recording"} => ~settled
    /\ tool.step \in {"record", "recording", "validate"} => \A f \in FileNames : disk[f] = tool.commit
    /\ tool.step = "off" /\ tool.passed => (\A f \in FileNames : disk[f] = tool.commit) /\ Validates(disk)

\* A server that has seen no write has read one settled disk; what it serves
\* was not refused.
LoadedInv ==
    /\ sound =>
          /\ server.step \in {"sidecar", "files"} => settled
          /\ server.step = "files" => sidecar = server.sha
          /\ server.step \in {"sidecar", "files", "serving"} =>
                \A f \in DOMAIN server.content : server.content[f] = server.sha
    /\ server.step = "serving" => server.data # Refused

FilesInv == TypeOK /\ WrittenInv /\ LoadedInv

\* The files and their order.
LEMMA FilesAre ==
  /\ Len(Files) = 3 /\ DOMAIN Files = 1 .. 3 /\ FileNames = {"building", "characters", "teams"}
  /\ Files[1] = "building" /\ Files[2] = "characters" /\ Files[3] = "teams"
  /\ FileNames = {Files[i] : i \in 1 .. 3}
<1>1. /\ Len(Files) = 3 /\ DOMAIN Files = 1 .. 3
      /\ Files[1] = "building" /\ Files[2] = "characters" /\ Files[3] = "teams"
  BY DEF Files
<1>2. FileNames = {Files[i] : i \in 1 .. 3}
  BY <1>1 DEF FileNames, Range
<1>3. 1 .. 3 = {1, 2, 3}
  OBVIOUS
<1> QED BY <1>1, <1>2, <1>3

\* The server reads the first files, then the next.
LEMMA NextFile ==
  ASSUME NEW n \in 0 .. Len(Files) - 1
  PROVE  LET read == {Files[i] : i \in 1 .. n}  file == Files[n + 1] IN
         /\ Cardinality(read) = n /\ IsFiniteSet(read) /\ file \notin read /\ file \in FileNames
         /\ read \cup {file} = {Files[i] : i \in 1 .. n + 1}
         /\ read \cup {file} = FileNames <=> n = Len(Files) - 1
         /\ read \subseteq FileNames
<1> DEFINE read == {Files[i] : i \in 1 .. n}
<1>0. n \in {0, 1, 2} /\ Len(Files) = 3
  BY FilesAre
<1>1. n = 0 => read = {}
  OBVIOUS
<1>2. n = 1 => read = {"building"}
  <2>1. 1 .. 1 = {1}
    OBVIOUS
  <2> QED BY <2>1, FilesAre
<1>3. n = 2 => read = {"building", "characters"}
  <2>1. 1 .. 2 = {1, 2}
    OBVIOUS
  <2> QED BY <2>1, FilesAre
<1>4. Cardinality({}) = 0 /\ Cardinality({"building"}) = 1 /\ Cardinality({"building", "characters"}) = 2
  <2>1. Cardinality({"building"}) = 1 /\ IsFiniteSet({"building"})
    BY FS_Singleton
  <2>2. {"building", "characters"} = {"building"} \cup {"characters"}
    OBVIOUS
  <2>3. Cardinality({"building"} \cup {"characters"}) = 1 + 1
    <3>1. "characters" \notin {"building"}
      OBVIOUS
    <3>2. Cardinality({"building"} \cup {"characters"})
             = IF "characters" \in {"building"} THEN Cardinality({"building"})
               ELSE Cardinality({"building"}) + 1
      BY <2>1, FS_AddElement, Zenon
    <3> QED BY <2>1, <3>1, <3>2
  <2> QED BY <2>1, <2>2, <2>3, FS_EmptySet
<1>5. IsFiniteSet(read)
  <2>1. IsFiniteSet({"building"}) /\ IsFiniteSet({})
    BY FS_Singleton, FS_EmptySet
  <2>2. {"building", "characters"} = {"building"} \cup {"characters"}
    OBVIOUS
  <2>3. IsFiniteSet({"building", "characters"})
    BY <2>1, <2>2, FS_AddElement
  <2> QED BY <1>0, <1>1, <1>2, <1>3, <2>1, <2>3
<1>6. read \cup {Files[n + 1]} = {Files[i] : i \in 1 .. n + 1}
  <2>1. 1 .. n + 1 = (1 .. n) \cup {n + 1}
    BY <1>0
  <2> QED BY <2>1
<1>7. Cardinality(read) = n
  <2> HIDE DEF read
  <2> QED BY <1>0, <1>1, <1>2, <1>3, <1>4
<1>8. /\ Files[n + 1] \notin read /\ Files[n + 1] \in FileNames /\ read \subseteq FileNames
      /\ read \cup {Files[n + 1]} = FileNames <=> n = Len(Files) - 1
  <2> HIDE DEF read
  <2>1. CASE n = 0
    BY <2>1, <1>1, FilesAre
  <2>2. CASE n = 1
    BY <2>2, <1>2, FilesAre
  <2>3. CASE n = 2
    BY <2>3, <1>3, FilesAre
  <2> QED BY <1>0, <2>1, <2>2, <2>3
<1> QED BY <1>5, <1>6, <1>7, <1>8

\* A checkout, with its files or without.
LEMMA InitFiles == Init => FilesInv
<1> SUFFICES ASSUME Init PROVE FilesInv
  OBVIOUS
<1>1. pin \in Commits
  BY PinsAreCommits DEF Init
<1>2. TypeOK
  <2>1. disk \in [FileNames -> Contents] /\ sidecar \in Contents
    BY <1>1 DEF Init, Contents
  <2>2. tool = Idle /\ server = Off
    BY DEF Init
  <2>3. runs \in 0 .. MaxRuns /\ starts \in 0 .. MaxStarts
    BY BoundsAreNumbers DEF Init
  <2> QED BY <2>1, <2>2, <2>3 DEF Init, TypeOK
<1>3. WrittenInv
  BY <1>1 DEF Init, WrittenInv, Idle
<1>4. LoadedInv
  BY DEF Init, LoadedInv, Off
<1> QED BY <1>2, <1>3, <1>4 DEF FilesInv

\* The types of the run of the tool.
Tools == {Idle} \cup [step : {"off"}, passed : {TRUE}, commit : Commits]
         \cup [step : InRun, commit : Commits, at : 1 .. Len(Files) + 1]

\* A run of the tool, of what it was run for.
LEMMA ToolIs ==
  ASSUME TypeOK
  PROVE  /\ tool \in Tools
         /\ tool.step # "off" => /\ tool.step \in InRun /\ tool.commit \in Commits /\ tool.at \in 1 .. 4
                                 /\ tool = [step |-> tool.step, commit |-> tool.commit, at |-> tool.at]
                                 /\ \A s \in InRun : [tool EXCEPT !.step = s] = [step |-> s, commit |-> tool.commit, at |-> tool.at]
         /\ pin \in Commits
         /\ {Torn, Absent} \cap Commits = {}
<1>1. tool \in Tools
  BY DEF TypeOK, Tools
<1>2. pin \in Commits
  BY PinsAreCommits DEF TypeOK
<1>3. ASSUME tool.step # "off" PROVE tool \in [step : InRun, commit : Commits, at : 1 .. Len(Files) + 1]
  <2>1. CASE tool = Idle
    BY <1>3, <2>1 DEF Idle
  <2>2. CASE tool \in [step : {"off"}, passed : {TRUE}, commit : Commits]
    BY <1>3, <2>2
  <2> QED BY <1>1, <2>1, <2>2 DEF Tools
<1>4. Len(Files) + 1 = 4
  BY FilesAre
<1>5. ASSUME tool.step # "off", NEW s \in InRun
      PROVE  [tool EXCEPT !.step = s] = [step |-> s, commit |-> tool.commit, at |-> tool.at]
  BY <1>3, <1>5
<1> QED BY <1>1, <1>2, <1>3, <1>4, <1>5, CommitsAreOpaque

\* Steps of the tool that write nothing: it is idle, has passed, or goes on.
LEMMA QuietStep ==
  ASSUME FilesInv, DiskSame, ServerSame, UNCHANGED <<pin, runs>>,
         \/ Fails
         \/ Passes /\ Validates(disk) /\ tool.step = "validate"
         \/ /\ Goes("validate") /\ tool.step # "off"
            /\ \A f \in FileNames : disk[f] = tool.commit
         \/ Goes("fetch") /\ tool.step \in {"sync", "force"}
  PROVE  FilesInv'
<1> USE DEF FilesInv, DiskSame, ServerSame
<1>1. UNCHANGED <<choice, pin, disk, sidecar, settled, server, sound, starts, runs>>
  OBVIOUS
<1>2. LoadedInv'
  BY <1>1 DEF LoadedInv
<1>3. /\ tool' \in Tools
      /\ (settled => sidecar \in Commits /\ \A f \in FileNames : disk[f] = sidecar)'
  <2>1. tool' \in Tools
    <3>1. CASE Fails
      BY <3>1 DEF Fails, Tools
    <3>2. CASE Passes /\ tool.step = "validate"
      BY <3>2, ToolIs DEF Passes, Tools
    <3>3. ASSUME NEW s \in InRun, Goes(s), tool.step # "off" PROVE tool' \in Tools
      <4>1. tool' = [step |-> s, commit |-> tool.commit, at |-> tool.at] /\ Len(Files) + 1 = 4
        BY <3>3, ToolIs, FilesAre DEF Goes
      <4> QED BY <4>1, <3>3, ToolIs DEF Tools
    <3>4. {"validate", "fetch"} \subseteq InRun
      BY DEF InRun
    <3> QED BY <3>1, <3>2, <3>3, <3>4
  <2> QED BY <2>1, <1>1 DEF WrittenInv
<1>4. TypeOK'
  <2>1. (\/ tool = Idle
         \/ tool \in [step : {"off"}, passed : {TRUE}, commit : Commits]
         \/ tool \in [step : InRun, commit : Commits, at : 1 .. Len(Files) + 1])'
    BY <1>3 DEF Tools
  <2>2. (\/ server = Off
         \/ server \in [step : {"sidecar", "files"}, sha : Commits, content : FirstFiles]
         \/ /\ server.sha \in Commits /\ server.content \in [FileNames -> Commits]
            /\ server = Serving(server.content, server.sha))'
    BY <1>1 DEF TypeOK
  <2> QED BY <1>1, <2>1, <2>2 DEF TypeOK
<1>5. WrittenInv'
  <2>1. CASE Fails
    BY <2>1, <1>1, <1>3 DEF Fails, Idle, WrittenInv
  <2>2. CASE Passes /\ Validates(disk) /\ tool.step = "validate"
    <3>1. tool'.step = "off" /\ tool'.commit = tool.commit
      BY <2>2 DEF Passes
    <3>2. Validates(disk)'
      BY <2>2, <1>1 DEF Validates, Readable, Raw
    <3> QED BY <2>2, <3>1, <3>2, <1>1, <1>3 DEF WrittenInv
  <2>3. CASE Goes("validate") /\ tool.step # "off" /\ \A f \in FileNames : disk[f] = tool.commit
    <3>1. tool'.step = "validate" /\ tool'.commit = tool.commit
      BY <2>3, ToolIs DEF Goes, InRun
    <3> QED BY <2>3, <3>1, <1>1, <1>3 DEF WrittenInv
  <2>4. CASE Goes("fetch") /\ tool.step \in {"sync", "force"}
    <3>1. tool'.step = "fetch" /\ tool'.commit = tool.commit /\ tool'.at = 1
      BY <2>4, ToolIs DEF Goes, InRun, WrittenInv
    <3> QED BY <3>1, <1>1, <1>3, FilesAre DEF WrittenInv
  <2> QED BY <2>1, <2>2, <2>3, <2>4
<1> QED BY <1>2, <1>4, <1>5

\* The pin is moved, or the tool is run.
LEMMA ManifestStep == FilesInv /\ (Bump \/ Run) => FilesInv'
<1> SUFFICES ASSUME FilesInv, Bump \/ Run PROVE FilesInv'
  OBVIOUS
<1> USE DEF FilesInv
<1>1. /\ UNCHANGED <<choice, disk, sidecar, settled, server, sound, starts>>
      /\ pin' \in choice
      /\ \/ tool' = tool /\ runs' = runs
         \/ \E command \in {"sync", "force", "check"} :
              tool' = [step |-> command, commit |-> pin, at |-> 1] /\ runs < MaxRuns /\ runs' = runs + 1
  BY DEF Bump, Run, DiskSame, ServerSame, TypeOK
<1>2. tool' \in Tools /\ runs' \in 0 .. MaxRuns
  <2>1. CASE tool' = tool /\ runs' = runs
    BY <2>1, ToolIs DEF TypeOK
  <2>2. ASSUME NEW command \in {"sync", "force", "check"},
               tool' = [step |-> command, commit |-> pin, at |-> 1], runs < MaxRuns, runs' = runs + 1
        PROVE  tool' \in Tools /\ runs' \in 0 .. MaxRuns
    <3>1. command \in InRun /\ 1 \in 1 .. Len(Files) + 1
      BY FilesAre DEF InRun
    <3>2. tool' \in [step : InRun, commit : Commits, at : 1 .. Len(Files) + 1]
      BY <2>2, <3>1, ToolIs
    <3>3. runs' \in 0 .. MaxRuns
      BY <2>2, BoundsAreNumbers DEF TypeOK
    <3> QED BY <3>2, <3>3 DEF Tools
  <2> QED BY <1>1, <2>1, <2>2
<1>3. TypeOK'
  <2>1. (\/ tool = Idle
         \/ tool \in [step : {"off"}, passed : {TRUE}, commit : Commits]
         \/ tool \in [step : InRun, commit : Commits, at : 1 .. Len(Files) + 1])'
    BY <1>2 DEF Tools
  <2>2. (\/ server = Off
         \/ server \in [step : {"sidecar", "files"}, sha : Commits, content : FirstFiles]
         \/ /\ server.sha \in Commits /\ server.content \in [FileNames -> Commits]
            /\ server = Serving(server.content, server.sha))'
    BY <1>1 DEF TypeOK
  <2> QED BY <1>1, <1>2, <2>1, <2>2 DEF TypeOK
<1>4. WrittenInv'
  <2>1. CASE tool' = tool
    BY <2>1, <1>1 DEF WrittenInv, Validates, Readable, Raw
  <2>2. ASSUME NEW command \in {"sync", "force", "check"}, tool' = [step |-> command, commit |-> pin, at |-> 1]
        PROVE  WrittenInv'
    BY <2>2, <1>1 DEF WrittenInv
  <2> QED BY <1>1, <2>1, <2>2
<1>5. LoadedInv'
  BY <1>1 DEF LoadedInv
<1> QED BY <1>3, <1>4, <1>5

\* The steps of the tool that write nothing, one by one.
LEMMA ToolStep == FilesInv /\ (Compare \/ Forced \/ CheckPins \/ FetchFails \/ Validate \/ Kill) => FilesInv'
<1> SUFFICES ASSUME FilesInv, Compare \/ Forced \/ CheckPins \/ FetchFails \/ Validate \/ Kill PROVE FilesInv'
  OBVIOUS
<1>1. ASSUME Matches(tool.commit) PROVE \A f \in FileNames : disk[f] = tool.commit
  BY <1>1 DEF Matches
<1>2. CASE Compare
  BY <1>1, <1>2, QuietStep DEF Compare
<1>3. CASE Forced
  BY <1>3, QuietStep DEF Forced
<1>4. CASE CheckPins
  BY <1>1, <1>4, QuietStep DEF CheckPins
<1>5. CASE FetchFails
  BY <1>5, QuietStep DEF FetchFails
<1>6. CASE Validate
  BY <1>6, QuietStep DEF Validate
<1>7. CASE Kill
  BY <1>7, QuietStep DEF Kill
<1> QED BY <1>2, <1>3, <1>4, <1>5, <1>6, <1>7

\* The files and the sidecar are written.
LEMMA WriteStep == FilesInv /\ (BeginWrite \/ EndWrite \/ BeginRecord \/ EndRecord) => FilesInv'
<1> SUFFICES ASSUME FilesInv, BeginWrite \/ EndWrite \/ BeginRecord \/ EndRecord PROVE FilesInv'
  OBVIOUS
<1> USE DEF FilesInv
<1>0. tool.step \in InRun /\ tool.commit \in Commits /\ tool.step # "off"
  BY ToolIs DEF BeginWrite, EndWrite, BeginRecord, EndRecord
<1>1. /\ UNCHANGED <<choice, pin, runs, starts, server>>
      /\ tool' = [step |-> tool'.step, commit |-> tool.commit, at |-> tool'.at]
      /\ tool'.step \in InRun /\ tool'.at \in 1 .. Len(Files) + 1
  <2>1. UNCHANGED <<choice, pin, runs, starts, server>>
    BY DEF BeginWrite, EndWrite, BeginRecord, EndRecord, ServerSame
  <2>2. ASSUME NEW t \in InRun, Goes(t) PROVE tool' = [step |-> t, commit |-> tool.commit, at |-> tool.at]
    BY <2>2, <1>0, ToolIs DEF Goes
  <2>3. CASE EndWrite
    <3>1. PICK t \in InRun : t = IF tool.at = Len(Files) THEN "record" ELSE "fetch"
      BY DEF InRun
    <3>2. tool' = [step |-> t, commit |-> tool.commit, at |-> tool.at + 1]
      <4>1. tool = [step |-> tool.step, commit |-> tool.commit, at |-> tool.at]
        BY <1>0, ToolIs
      <4>2. tool' = [tool EXCEPT !.at = @ + 1, !.step = t]
        BY <2>3, <3>1 DEF EndWrite
      <4> QED BY <4>1, <4>2
    <3>3. tool.at \in 1 .. Len(Files)
      BY <2>3 DEF EndWrite, WrittenInv
    <3> QED BY <2>1, <3>2, <3>3, FilesAre
  <2>4. {"write", "recording", "validate"} \subseteq InRun /\ tool.at \in 1 .. Len(Files) + 1
    BY <1>0, ToolIs, FilesAre DEF InRun
  <2>5. CASE BeginWrite
    BY <2>1, <2>2, <2>4, <2>5 DEF BeginWrite
  <2>6. CASE BeginRecord
    BY <2>1, <2>2, <2>4, <2>6 DEF BeginRecord
  <2>7. CASE EndRecord
    BY <2>1, <2>2, <2>4, <2>7 DEF EndRecord
  <2> QED BY <2>3, <2>5, <2>6, <2>7
<1>2. disk' \in [FileNames -> Contents] /\ sidecar' \in Contents /\ settled' \in BOOLEAN /\ sound' \in BOOLEAN
  BY <1>0 DEF BeginWrite, EndWrite, BeginRecord, EndRecord, Contents, TypeOK, ServerSame
<1>3. TypeOK'
  <2>1. tool' \in [step : InRun, commit : Commits, at : 1 .. Len(Files) + 1]
    BY <1>0, <1>1
  <2>2. (\/ server = Off
         \/ server \in [step : {"sidecar", "files"}, sha : Commits, content : FirstFiles]
         \/ /\ server.sha \in Commits /\ server.content \in [FileNames -> Commits]
            /\ server = Serving(server.content, server.sha))'
    BY <1>1 DEF TypeOK
  <2> QED BY <1>1, <1>2, <2>1, <2>2 DEF TypeOK
<1>4. CASE BeginWrite
  <2>1. /\ tool.step = "fetch" /\ disk' = [disk EXCEPT ![Files[tool.at]] = Torn] /\ ~settled'
        /\ sound' = (sound /\ server.step = "serving")
        /\ tool'.step = "write" /\ tool'.at = tool.at /\ tool'.commit = tool.commit
    BY <1>0, <1>4, ToolIs DEF BeginWrite, Goes, InRun
  <2>2. \A i \in 1 .. tool.at - 1 : disk'[Files[i]] = disk[Files[i]]
    <3>1. tool.at \in {1, 2, 3}
      BY <2>1, FilesAre DEF WrittenInv
    <3>2. ASSUME NEW i \in 1 .. tool.at - 1 PROVE disk'[Files[i]] = disk[Files[i]]
      <4>1. i \in {1, 2} /\ i # tool.at
        BY <3>1
      <4>2. Files[i] \in FileNames /\ Files[i] # Files[tool.at]
        BY <3>1, <4>1, FilesAre
      <4> QED BY <2>1, <4>2 DEF TypeOK
    <3> QED BY <3>2
  <2>3. WrittenInv'
    BY <2>1, <2>2 DEF WrittenInv
  <2>4. LoadedInv'
    BY <2>1, <1>1 DEF LoadedInv
  <2> QED BY <1>3, <2>3, <2>4
<1>5. CASE EndWrite
  <2>1. /\ tool.step = "write" /\ disk' = [disk EXCEPT ![Files[tool.at]] = tool.commit]
        /\ UNCHANGED <<sidecar, settled, sound>>
        /\ tool'.step = (IF tool.at = Len(Files) THEN "record" ELSE "fetch")
        /\ tool'.at = tool.at + 1 /\ tool'.commit = tool.commit
    BY <1>0, <1>5, ToolIs DEF EndWrite, ServerSame
  <2>2. tool.at \in {1, 2, 3} /\ ~settled /\ \A i \in 1 .. tool.at - 1 : disk[Files[i]] = tool.commit
    BY <2>1, FilesAre DEF WrittenInv
  <2>3. \A i \in 1 .. tool.at : disk'[Files[i]] = tool.commit
    <3>1. ASSUME NEW i \in 1 .. tool.at PROVE disk'[Files[i]] = tool.commit
      <4>1. i \in {1, 2, 3} /\ (i = tool.at \/ i \in 1 .. tool.at - 1)
        BY <2>2
      <4>2. Files[i] \in FileNames
        BY <4>1, FilesAre
      <4> QED BY <2>1, <2>2, <4>1, <4>2 DEF TypeOK
    <3> QED BY <3>1
  <2>4. tool.at = 3 => \A f \in FileNames : disk'[f] = tool.commit
    BY <2>3, FilesAre
  <2>5. WrittenInv'
    <3>1. CASE tool.at = 3
      BY <3>1, <2>1, <2>2, <2>4, FilesAre DEF WrittenInv
    <3>2. CASE tool.at # 3
      <4>1. tool.at + 1 \in 1 .. Len(Files) /\ (tool.at + 1) - 1 = tool.at
        BY <3>2, <2>2, FilesAre
      <4> QED BY <3>2, <4>1, <2>1, <2>2, <2>3, FilesAre DEF WrittenInv
    <3> QED BY <3>1, <3>2
  <2>6. LoadedInv'
    BY <2>1, <1>1 DEF LoadedInv
  <2> QED BY <1>3, <2>5, <2>6
<1>6. CASE BeginRecord
  <2>1. /\ tool.step = "record" /\ UNCHANGED <<disk, settled, sound>>
        /\ tool'.step = "recording" /\ tool'.commit = tool.commit
    BY <1>0, <1>6, ToolIs DEF BeginRecord, Goes, ServerSame, InRun
  <2>2. ~settled
    BY <2>1 DEF WrittenInv
  <2> QED BY <2>1, <2>2, <1>1, <1>3 DEF WrittenInv, LoadedInv
<1>7. CASE EndRecord
  <2>1. /\ tool.step = "recording" /\ UNCHANGED <<disk, sound>> /\ settled' /\ sidecar' = tool.commit
        /\ tool'.step = "validate" /\ tool'.commit = tool.commit
    BY <1>0, <1>7, ToolIs DEF EndRecord, Goes, ServerSame, InRun
  <2>2. ~settled
    BY <2>1 DEF WrittenInv
  <2> QED BY <2>1, <2>2, <1>0, <1>1, <1>3 DEF WrittenInv, LoadedInv
<1> QED BY <1>4, <1>5, <1>6, <1>7

-----------------------------------------------------------------------------
(* The server.                                                             *)

\* Steps of the server leave the disk and the tool alone.
LEMMA ServerTyped ==
  ASSUME TypeOK, ToolSame,
         (\/ server = Off
          \/ server \in [step : {"sidecar", "files"}, sha : Commits, content : FirstFiles]
          \/ /\ server.sha \in Commits /\ server.content \in [FileNames -> Commits]
             /\ server = Serving(server.content, server.sha))',
         sound' \in BOOLEAN, starts' \in 0 .. MaxStarts
  PROVE  TypeOK'
<1>1. UNCHANGED <<choice, pin, disk, sidecar, tool, settled, runs>>
  BY DEF ToolSame
<1> QED BY <1>1 DEF TypeOK

\* A server is not up, loading or serving.
LEMMA ServerIs ==
  ASSUME TypeOK
  PROVE  \/ server.step = "off"
         \/ server \in [step : {"sidecar", "files"}, sha : Commits, content : FirstFiles]
         \/ server.step = "serving"
<1>1. \A c, s : Serving(c, s).step = "serving"
  BY DEF Serving
<1>2. Off.step = "off"
  BY DEF Off
<1> QED BY <1>1, <1>2 DEF TypeOK

\* What is known of the disk is not the server's doing.
LEMMA WrittenStays == WrittenInv /\ ToolSame => WrittenInv'
<1> SUFFICES ASSUME WrittenInv, ToolSame PROVE WrittenInv'
  OBVIOUS
<1>1. disk' = disk /\ tool' = tool /\ settled' = settled /\ sidecar' = sidecar
  BY DEF ToolSame
<1>2. Validates(disk)' <=> Validates(disk)
  BY <1>1 DEF Validates, Readable, Raw
<1> QED BY <1>1, <1>2 DEF WrittenInv

\* The server starts, reads its files one by one, and imports.
LEMMA ServerStep == FilesInv /\ (Start \/ ReadSidecar \/ ReadFile \/ Import) => FilesInv'
<1> SUFFICES ASSUME FilesInv, Start \/ ReadSidecar \/ ReadFile \/ Import PROVE FilesInv'
  OBVIOUS
<1> USE DEF FilesInv
<1>0. ToolSame
  BY DEF Start, ReadSidecar, ReadFile, Import
<1>1. WrittenInv'
  BY <1>0, WrittenStays
<1>2. UNCHANGED <<settled, sidecar, disk>>
  BY <1>0 DEF ToolSame
<1>3. CASE Start
  <2>1. server' = [step |-> "sidecar", sha |-> pin, content |-> <<>>] /\ sound' = settled
    BY <1>3 DEF Start
  <2>2. starts' \in 0 .. MaxStarts /\ sound' \in BOOLEAN
    BY <1>3, BoundsAreNumbers DEF Start, TypeOK
  <2>3. server'.content \in [{Files[i] : i \in 1 .. 0} -> Commits] /\ DOMAIN server'.content = {}
    <3>1. {Files[i] : i \in 1 .. 0} = {}
      OBVIOUS
    <3>2. server'.content = <<>>
      BY <2>1
    <3> QED BY <3>1, <3>2
  <2>4. 0 \in 0 .. Len(Files) - 1 /\ server'.sha \in Commits /\ server'.step = "sidecar"
    BY <2>1, FilesAre, ToolIs
  <2>5. TypeOK'
    <3>1. server'.content \in FirstFiles
      BY <2>3, <2>4 DEF FirstFiles
    <3>2. server' \in [step : {"sidecar", "files"}, sha : Commits, content : FirstFiles]
      BY <2>1, <2>4, <3>1
    <3> QED BY <1>0, <2>2, <3>2, ServerTyped
  <2>6. LoadedInv'
    BY <1>2, <2>1, <2>3, <2>4 DEF LoadedInv, Off
  <2> QED BY <1>1, <2>5, <2>6
<1>4. ASSUME server' = Off, sound' \in BOOLEAN, UNCHANGED starts
      PROVE  FilesInv'
  <2>1. TypeOK'
    BY <1>0, <1>4, ServerTyped DEF TypeOK
  <2>2. LoadedInv'
    BY <1>4 DEF LoadedInv, Off
  <2> QED BY <1>1, <2>1, <2>2
<1>5. CASE ReadSidecar
  <2>1. CASE Reads(sidecar)
    <3>1. /\ server.step = "sidecar" /\ server' = [server EXCEPT !.step = "files"] /\ sound' = sound /\ starts' = starts
      BY <1>5, <2>1 DEF ReadSidecar
    <3>2. server \in [step : {"sidecar", "files"}, sha : Commits, content : FirstFiles]
      BY <3>1, ServerIs
    <3>3. /\ server' \in [step : {"sidecar", "files"}, sha : Commits, content : FirstFiles]
          /\ server'.step = "files" /\ server'.sha = server.sha /\ server'.content = server.content
      BY <3>1, <3>2
    <3>4. TypeOK'
      BY <1>0, <3>1, <3>3, ServerTyped DEF TypeOK
    <3>5. ASSUME sound PROVE sidecar = server.sha
      <4>1. settled /\ sidecar \in Commits
        BY <3>1, <3>5 DEF LoadedInv, WrittenInv
      <4> QED BY <4>1, <2>1, CommitsAreOpaque DEF Reads
    <3>6. LoadedInv'
      BY <1>2, <3>1, <3>3, <3>5 DEF LoadedInv
    <3> QED BY <1>1, <3>4, <3>6
  <2>2. CASE ~Reads(sidecar)
    BY <1>4, <1>5, <2>2 DEF ReadSidecar, Exits
  <2> QED BY <2>1, <2>2
<1>6. CASE ReadFile
  <2> DEFINE file == Files[Cardinality(DOMAIN server.content) + 1]
             content == [f \in DOMAIN server.content \cup {file} |-> IF f = file THEN disk[f] ELSE server.content[f]]
  <2>1. /\ server.step = "files" /\ starts' = starts /\ sound' \in BOOLEAN
        /\ \/ server' = Off
           \/ /\ sound' = sound /\ disk[file] \in Commits
              /\ \/ DOMAIN content # FileNames /\ server' = [server EXCEPT !.content = content]
                 \/ /\ DOMAIN content = FileNames /\ server' = Serving(content, server.sha)
                    /\ Transformed(Raw(content), FALSE) # Refused
    BY <1>6 DEF ReadFile, Exits, TypeOK
  <2>2. server \in [step : {"sidecar", "files"}, sha : Commits, content : FirstFiles]
    BY <2>1, ServerIs
  <2>3. PICK n \in 0 .. Len(Files) - 1 : server.content \in [{Files[i] : i \in 1 .. n} -> Commits]
    BY <2>2 DEF FirstFiles
  <2>4. /\ DOMAIN server.content = {Files[i] : i \in 1 .. n} /\ file = Files[n + 1] /\ file \in FileNames
        /\ DOMAIN content = {Files[i] : i \in 1 .. n + 1} /\ (DOMAIN content = FileNames <=> n = Len(Files) - 1)
    BY <2>3, NextFile
  <2>5. ASSUME disk[file] \in Commits PROVE content \in [{Files[i] : i \in 1 .. n + 1} -> Commits]
    BY <2>3, <2>4, <2>5
  <2>6. ASSUME sound, disk[file] \in Commits PROVE \A f \in DOMAIN content : content[f] = server.sha
    BY <2>1, <2>4, <2>6 DEF LoadedInv, WrittenInv
  <2> HIDE DEF content
  <2>7. CASE server' = Off
    BY <1>4, <2>1, <2>7
  <2>8. CASE /\ sound' = sound /\ disk[file] \in Commits
             /\ DOMAIN content # FileNames /\ server' = [server EXCEPT !.content = content]
    <3>1. n + 1 \in 0 .. Len(Files) - 1
      BY <2>4, <2>8, FilesAre
    <3>2. content \in FirstFiles
      BY <2>5, <2>8, <3>1 DEF FirstFiles
    <3>3. /\ server' \in [step : {"sidecar", "files"}, sha : Commits, content : FirstFiles]
          /\ server'.step = "files" /\ server'.sha = server.sha /\ server'.content = content
      BY <2>1, <2>2, <2>8, <3>2
    <3>4. TypeOK'
      BY <1>0, <2>1, <3>3, ServerTyped DEF TypeOK
    <3>5. LoadedInv'
      BY <1>2, <2>1, <2>6, <2>8, <3>3 DEF LoadedInv
    <3> QED BY <1>1, <3>4, <3>5
  <2>9. CASE /\ sound' = sound /\ disk[file] \in Commits
             /\ DOMAIN content = FileNames /\ server' = Serving(content, server.sha)
             /\ Transformed(Raw(content), FALSE) # Refused
    <3>1. content \in [FileNames -> Commits]
      BY <2>4, <2>5, <2>9, FilesAre
    <3>2. server'.sha = server.sha /\ server'.content = content /\ server'.step = "serving" /\ server.sha \in Commits
         /\ server'.data # Refused
      BY <2>2, <2>9 DEF Serving
    <3>3. server' = Serving(server'.content, server'.sha)
      BY <2>9, <3>2
    <3>4. TypeOK'
      BY <1>0, <2>1, <3>1, <3>2, <3>3, ServerTyped DEF TypeOK
    <3>5. LoadedInv'
      BY <2>6, <2>9, <3>2 DEF LoadedInv
    <3> QED BY <1>1, <3>4, <3>5
  <2> QED BY <2>1, <2>7, <2>8, <2>9
<1>7. CASE Import
  <2>1. UNCHANGED <<server, sound, starts>>
    BY <1>7 DEF Import
  <2>2. TypeOK'
    BY <1>0, <2>1, ServerTyped DEF TypeOK
  <2>3. LoadedInv'
    BY <1>2, <2>1 DEF LoadedInv
  <2> QED BY <1>1, <2>2, <2>3
<1> QED BY <1>3, <1>5, <1>6, <1>7

\* Every step keeps the invariant.
LEMMA FilesStep == FilesInv /\ [Next]_vars => FilesInv'
<1> SUFFICES ASSUME FilesInv, [Next]_vars PROVE FilesInv'
  OBVIOUS
<1>1. CASE UNCHANGED vars
  <2>1. UNCHANGED <<server, sound, starts>> /\ ToolSame
    BY <1>1 DEF vars, ToolSame
  <2>2. TypeOK'
    BY <2>1, ServerTyped DEF TypeOK, FilesInv
  <2>3. LoadedInv'
    BY <1>1 DEF vars, LoadedInv, FilesInv
  <2> QED BY <2>1, <2>2, <2>3, WrittenStays DEF FilesInv
<1>2. CASE Next
  BY <1>2, ManifestStep, ToolStep, WriteStep, ServerStep DEF Next
<1> QED BY <1>1, <1>2

\* What the game files are at every step: typed, of the commit the tool was run
\* for, and read by the server in one piece if it saw no change.
THEOREM FilesInvariant == Spec => []FilesInv
<1> QED BY InitFiles, FilesStep, PTL DEF Spec

-----------------------------------------------------------------------------
(* What the checks say of the tables.                                      *)

\* Every variable of the game files keeps its type, and the server reads the
\* files in their order.
THEOREM FilesTyped == Spec => []TypeOK
<1>1. FilesInv => TypeOK  BY DEF FilesInv
<1> QED  BY <1>1, FilesInvariant, PTL

\* The tables read from a disk.
LEMMA RawIs ==
  ASSUME NEW content \in [FileNames -> Commits]
  PROVE  /\ Raw(content).building = Upstream[content["building"]].building
         /\ Raw(content).characters = Upstream[content["characters"]].characters
         /\ Raw(content).teams = Upstream[content["teams"]].teams
  BY FilesAre DEF Raw

\* A transformation that is not refused has a model of every operator that
\* loads, and of all of them if it was strict.
LEMMA TransformedIs ==
  ASSUME NEW raw, NEW strict \in BOOLEAN, Transformed(raw, strict) # Refused
  PROVE  LET b == raw.building
             loaded == {op \in DOMAIN b.chars : OperatorLoads(raw, op)}
             data == Transformed(raw, strict) IN
         /\ strict => loaded = DOMAIN b.chars
         /\ data.skipped = DOMAIN b.chars \ loaded
         /\ data.operators = [op \in loaded |-> Operator(raw, op)]
         /\ data.powers = Powers(raw.teams) /\ data.skills = Skills(b)
         /\ Transformed(raw, FALSE) # Refused
<1> DEFINE b == raw.building
           loaded == {op \in DOMAIN b.chars : OperatorLoads(raw, op)}
           fits == PowersLoad(raw.teams) /\ FacilitiesLoad(b) /\ SkillsLoad(b) /\ FormulasLoad(b) /\ LayoutLoads(b)
           model == [powers |-> Powers(raw.teams), constants |-> Constants(b), facilities |-> Facilities(b),
                     skills |-> Skills(b), formulas |-> Formulas(b), layout |-> LayoutSlots(b),
                     operators |-> [op \in loaded |-> Operator(raw, op)],
                     skipped |-> DOMAIN b.chars \ loaded]
<1>1. \A s \in BOOLEAN : Transformed(raw, s) = IF fits /\ (s => loaded = DOMAIN b.chars) THEN model ELSE Refused
  BY Zenon DEF Transformed
<1>2. /\ model.skipped = DOMAIN b.chars \ loaded
      /\ model.operators = [op \in loaded |-> Operator(raw, op)]
      /\ model.powers = Powers(raw.teams) /\ model.skills = Skills(b)
      /\ "powers" \in DOMAIN model
  <2> HIDE DEF loaded, b
  <2> QED OBVIOUS
<1>3. "powers" \notin DOMAIN Refused
  BY DEF Refused
<1>4. model # Refused
  BY <1>2, <1>3
<1>5. fits /\ (strict => loaded = DOMAIN b.chars) /\ Transformed(raw, strict) = model
  <2> HIDE DEF model, loaded, fits
  <2> QED BY <1>1
<1>6. Transformed(raw, FALSE) = model
  <2> HIDE DEF model, loaded, fits
  <2> QED BY <1>1, <1>5
<1> HIDE DEF model, loaded, fits
<1> QED BY <1>2, <1>4, <1>5, <1>6 DEF loaded

\* What is validated lacks no operator, and has the affiliations of the upstream
\* table.
LEMMA ValidatedIsWhole ==
  ASSUME NEW content \in [FileNames -> Contents], NEW c \in Commits,
         \A f \in FileNames : content[f] = c, Validates(content)
  PROVE  LET upstream == Upstream[c]  data == Transformed(upstream, FALSE) IN
         /\ data # Refused /\ data.skipped = {}
         /\ \A op \in DOMAIN data.operators \ NonOperators :
              /\ data.operators[op].nation = upstream.characters[op].nation
              /\ data.operators[op].team = upstream.characters[op].team
<1> DEFINE u == Upstream[c]  raw == Raw(content)
           loaded == {op \in DOMAIN u.building.chars : OperatorLoads(u, op)}
<1>1. content \in [FileNames -> Commits] /\ raw.building = u.building /\ raw.characters = u.characters /\ raw.teams = u.teams
  <2>1. content \in [FileNames -> Commits]
    OBVIOUS
  <2>2. content["building"] = c /\ content["characters"] = c /\ content["teams"] = c
    BY FilesAre
  <2> QED BY <2>1, <2>2, RawIs
<1>2. SchemaPasses(raw) /\ Transformed(raw, TRUE) # Refused
  BY DEF Validates
<1>3. \A op : OperatorLoads(raw, op) <=> OperatorLoads(u, op)
  BY <1>1 DEF OperatorLoads
<1>4. \A s \in BOOLEAN : Transformed(raw, s) = Transformed(u, s)
  <2>1. \A op : Operator(raw, op) = Operator(u, op)
    BY <1>1, Zenon DEF Operator
  <2> HIDE DEF raw, u
  <2> QED BY <1>1, <1>3, <2>1 DEF Transformed
<1>5. Transformed(u, TRUE) # Refused
  BY <1>2, <1>4
<1> HIDE DEF raw, u
<1>6. /\ loaded = DOMAIN u.building.chars /\ Transformed(u, FALSE) # Refused
      /\ Transformed(u, FALSE).skipped = {}
      /\ Transformed(u, FALSE).operators = [op \in loaded |-> Operator(u, op)]
  BY <1>5, TransformedIs
<1>7. ASSUME NEW op \in loaded \ NonOperators
      PROVE  Operator(u, op).nation = u.characters[op].nation /\ Operator(u, op).team = u.characters[op].team
  <2>1. op \in DOMAIN u.characters \ NonOperators
    BY <1>7 DEF OperatorLoads
  <2>2. Complete("character", u.characters[op])
    BY <1>1, <1>2, <2>1 DEF SchemaPasses, CharactersFit
  <2>3. "nationId" \notin u.characters[op].lacks /\ "teamId" \notin u.characters[op].lacks
    BY <2>2, FieldsAreGiven DEF Complete
  <2> QED BY <2>3 DEF Operator, Nation, Team
<1> HIDE DEF loaded
<1> QED BY <1>6, <1>7 DEF u

\* A run of the tool that passes leaves the files of one commit, the one it
\* names, and a model of them without an operator or an affiliation missing,
\* whatever runs were killed or failed before, and whichever fetched what.
THEOREM PassedWhole == Spec => []PassedIsWhole
<1>1. FilesInv => PassedIsWhole
  <2> SUFFICES ASSUME FilesInv, tool.step = "off", tool.passed
               PROVE  LET upstream == Upstream[tool.commit]  data == Transformed(upstream, FALSE) IN
                      /\ \A f \in FileNames : disk[f] = tool.commit
                      /\ data # Refused /\ data.skipped = {}
                      /\ \A op \in DOMAIN data.operators \ NonOperators :
                           /\ data.operators[op].nation = upstream.characters[op].nation
                           /\ data.operators[op].team = upstream.characters[op].team
    BY DEF PassedIsWhole
  <2>1. (\A f \in FileNames : disk[f] = tool.commit) /\ Validates(disk) /\ disk \in [FileNames -> Contents]
    BY DEF FilesInv, WrittenInv, TypeOK
  <2>2. disk["building"] \in Commits /\ "building" \in FileNames
    BY <2>1, FilesAre DEF Validates, Readable
  <2>3. tool.commit \in Commits
    BY <2>1, <2>2
  <2>4. disk \in [FileNames -> Contents] /\ (\A f \in FileNames : disk[f] = tool.commit) /\ Validates(disk)
    BY <2>1
  <2> QED BY <2>3, <2>4, ValidatedIsWhole, Zenon
<1> QED BY <1>1, FilesInvariant, PTL

\* One sequence after another.
LEMMA AppendedIs ==
  ASSUME NEW S, NEW s \in Seq(S), NEW t \in Seq(S)
  PROVE  /\ Len(s \o t) = Len(s) + Len(t) /\ DOMAIN (s \o t) = 1 .. Len(s) + Len(t)
         /\ \A i \in 1 .. Len(s) : (s \o t)[i] = s[i]
         /\ \A i \in Len(s) + 1 .. Len(s) + Len(t) : (s \o t)[i] = t[i - Len(s)]
  OBVIOUS

\* The numbers up to n.
LEMMA UpToIs ==
  ASSUME NEW n \in Nat
  PROVE  IsFiniteSet(1 .. n) /\ Cardinality(1 .. n) = n
<1>1. IsFiniteSet(1 .. n) /\ Cardinality(1 .. n) = IF 1 > n THEN 0 ELSE n - 1 + 1
  BY FS_Interval
<1> QED BY <1>1

\* A set of subsets of a finite set has a smallest one.
LEMMA SmallestSubset ==
  ASSUME NEW S, IsFiniteSet(S), NEW T, T \subseteq SUBSET S, T # {}
  PROVE  \E t \in T : \A u \in T : ~(u \subseteq t /\ u # t)
<1>1. FiniteSubsetsOf(S) = SUBSET S
  BY FS_FiniteSubsetsOfFinite
<1>2. IsWellFoundedOn(StrictSubsetOrdering(S), SUBSET S)
  BY <1>1, FS_StrictSubsetOrderingWellFounded
<1>3. PICK t \in T : \A u \in T : ~(<<u, t>> \in StrictSubsetOrdering(S))
  BY <1>2, WFMin
<1>4. \A u \in T : u \subseteq t /\ u # t => <<u, t>> \in StrictSubsetOrdering(S)
  BY DEF StrictSubsetOrdering
<1>5. ASSUME NEW u \in T, u \subseteq t, u # t PROVE FALSE
  BY <1>3, <1>4, <1>5, Zenon
<1> QED BY <1>5, Zenon

\* Tiers in order, and those of one condition by where they stand.
LEMMA BeforeMoves ==
  ASSUME NEW x, NEW y, NEW z, NEW i \in Nat, NEW j \in Nat, NEW k \in Nat,
         x.phase \in Nat, x.level \in Nat, y.phase \in Nat, y.level \in Nat, z.phase \in Nat, z.level \in Nat,
         Below(x, y) \/ (~Below(y, x) /\ i < j), Below(y, z) \/ (~Below(z, y) /\ j < k)
  PROVE  Below(x, z) \/ (~Below(z, x) /\ i < k)
<1>1. CASE Below(x, y) /\ Below(y, z)
  BY <1>1 DEF Below
<1>2. CASE Below(x, y) /\ ~Below(z, y)
  BY <1>2 DEF Below
<1>3. CASE ~Below(y, x) /\ Below(y, z)
  BY <1>3 DEF Below
<1>4. CASE ~Below(y, x) /\ i < j /\ ~Below(z, y) /\ j < k
  BY <1>4 DEF Below
<1> QED BY <1>1, <1>2, <1>3, <1>4

\* The unlock conditions of a slot come in order, and are those it was given.
LEMMA UnlocksAre ==
  ASSUME NEW tiers \in Seq(TierData)
  PROVE  /\ DOMAIN Unlocks(tiers) = 1 .. Len(tiers)
         /\ \A n \in 1 .. Len(tiers) : \E i \in 1 .. Len(tiers) : Unlocks(tiers)[n] = tiers[i]
         /\ \A n, m \in 1 .. Len(tiers) : n <= m => AtMost(Unlocks(tiers)[n], Unlocks(tiers)[m])
<1> DEFINE D == DOMAIN tiers
           Before(j, i) == Below(tiers[j], tiers[i]) \/ (~Below(tiers[i], tiers[j]) /\ j < i)
           Earlier(i) == {j \in D : Before(j, i)}
           rank == [i \in D |-> Cardinality(Earlier(i)) + 1]
           place(n) == CHOOSE i \in D : Cardinality(Earlier(i)) = n - 1
<1>1. D = 1 .. Len(tiers) /\ Len(tiers) \in Nat /\ \A i \in D : tiers[i].phase \in Nat /\ tiers[i].level \in Nat
  <2>1. D = 1 .. Len(tiers) /\ Len(tiers) \in Nat /\ \A i \in D : tiers[i] \in TierData
    OBVIOUS
  <2> QED BY <2>1 DEF TierData
<1>2. Unlocks(tiers) = [n \in D |-> tiers[place(n)]]
  BY DEF Unlocks
<1>3. \A i, j \in D : ~Before(i, i) /\ (i # j => Before(i, j) \/ Before(j, i))
  BY <1>1 DEF Below
<1>4. ASSUME NEW i \in D, NEW j \in D, NEW k \in D, Before(i, j), Before(j, k) PROVE Before(i, k)
  <2>1. /\ tiers[i].phase \in Nat /\ tiers[i].level \in Nat /\ tiers[j].phase \in Nat /\ tiers[j].level \in Nat
        /\ tiers[k].phase \in Nat /\ tiers[k].level \in Nat /\ i \in Nat /\ j \in Nat /\ k \in Nat
    BY <1>1
  <2> QED BY <1>4, <2>1, BeforeMoves, Zenon
<1> HIDE DEF Before
<1>5. \A i \in D : IsFiniteSet(Earlier(i)) /\ Cardinality(Earlier(i)) \in Nat /\ Cardinality(Earlier(i)) < Len(tiers)
  <2> SUFFICES ASSUME NEW i \in D
               PROVE  IsFiniteSet(Earlier(i)) /\ Cardinality(Earlier(i)) \in Nat /\ Cardinality(Earlier(i)) < Len(tiers)
    OBVIOUS
  <2>1. IsFiniteSet(D) /\ Cardinality(D) = Len(tiers)
    BY <1>1, UpToIs, Zenon
  <2>2. IsFiniteSet(D \ {i}) /\ Cardinality(D \ {i}) = Len(tiers) - 1
    BY <2>1, FS_RemoveElement
  <2>3. Earlier(i) \in SUBSET (D \ {i})
    BY <1>3
  <2>4. IsFiniteSet(Earlier(i)) /\ Cardinality(Earlier(i)) <= Cardinality(D \ {i})
    BY <2>2, <2>3, FS_Subset
  <2> HIDE DEF Earlier
  <2>5. Cardinality(Earlier(i)) \in Nat
    BY <2>4, FS_CardinalityType
  <2> QED BY <1>1, <2>2, <2>4, <2>5
<1>12. /\ rank \in [D -> D]
       /\ \A i \in D : rank[i] = Cardinality(Earlier(i)) + 1
  <2>1. \A i \in D : Cardinality(Earlier(i)) + 1 \in D
    <3> HIDE DEF Earlier
    <3> QED BY <1>1, <1>5
  <2> QED BY <2>1
<1> HIDE DEF rank
<1>6. \A i, j \in D : Before(i, j) => rank[i] < rank[j]
  <2> SUFFICES ASSUME NEW i \in D, NEW j \in D, Before(i, j)
               PROVE  rank[i] < rank[j]
    OBVIOUS
  <2>1. Earlier(i) \in SUBSET Earlier(j)
    BY <1>4
  <2>2. i \in Earlier(j) /\ i \notin Earlier(i)
    BY <1>3
  <2>3. Cardinality(Earlier(i)) <= Cardinality(Earlier(j)) /\ Cardinality(Earlier(i)) # Cardinality(Earlier(j))
    BY <1>5, <2>1, <2>2, FS_Subset
  <2> HIDE DEF Earlier
  <2> QED BY <1>5, <1>12, <2>3
<1>7. rank \in [D -> D] /\ \A i \in D : rank[i] \in Int
  BY <1>1, <1>12
<1>8. \A i, j \in D : rank[i] = rank[j] => i = j
  <2> SUFFICES ASSUME NEW i \in D, NEW j \in D, rank[i] = rank[j], i # j PROVE FALSE
    OBVIOUS
  <2>1. rank[i] < rank[j] \/ rank[j] < rank[i]
    BY <1>3, <1>6
  <2> QED BY <2>1, <1>7
<1>9. \A n \in D : \E i \in D : rank[i] = n
  <2>1. rank \in Injection(D, D)
    BY <1>7, <1>8 DEF Injection, IsInjective
  <2>2. IsFiniteSet(D)
    BY <1>1, UpToIs, Zenon
  <2>3. rank \in Surjection(D, D)
    BY <2>1, <2>2, FS_Injection
  <2> QED BY <2>3 DEF Surjection
<1>10. \A n \in D : place(n) \in D /\ rank[place(n)] = n
  <2> SUFFICES ASSUME NEW n \in D PROVE place(n) \in D /\ rank[place(n)] = n
    OBVIOUS
  <2>1. PICK i \in D : rank[i] = n
    BY <1>9
  <2>2. Cardinality(Earlier(i)) = n - 1
    <3> HIDE DEF Earlier
    <3> QED BY <2>1, <1>5, <1>12
  <2>3. place(n) \in D /\ Cardinality(Earlier(place(n))) = n - 1
    BY <2>2
  <2> HIDE DEF place, Earlier
  <2> QED BY <2>3, <1>1, <1>5, <1>12
<1>11. ASSUME NEW n \in D, NEW m \in D, n <= m PROVE AtMost(tiers[place(n)], tiers[place(m)])
  <2>1. ~Before(place(m), place(n))
    <3> HIDE DEF place
    <3>1. Before(place(m), place(n)) => rank[place(m)] < rank[place(n)]
      BY <1>6, <1>10
    <3> QED BY <1>1, <1>10, <1>11, <3>1
  <2> HIDE DEF place
  <2> QED BY <2>1 DEF Before, AtMost
<1> HIDE DEF place
<1>13. DOMAIN Unlocks(tiers) = 1 .. Len(tiers) /\ \A n \in D : Unlocks(tiers)[n] = tiers[place(n)]
  BY <1>1, <1>2
<1>14. \A n \in D : \E i \in D : Unlocks(tiers)[n] = tiers[i]
  BY <1>10, <1>13, Zenon
<1>15. \A n, m \in D : n <= m => AtMost(Unlocks(tiers)[n], Unlocks(tiers)[m])
  BY <1>11, <1>13, Zenon
<1> HIDE DEF D
<1> QED BY <1>1, <1>13, <1>14, <1>15, Zenon

\* Who has met the condition of a tier has a tier that does not come before it.
LEMMA ActiveIs ==
  ASSUME NEW tiers \in Seq(TierData), NEW m \in 1 .. Len(tiers)
  PROVE  LET unlocks == Unlocks(tiers)  active == ActiveAt(unlocks, unlocks[m]) IN
         active # 0 /\ ~Below(unlocks[active], unlocks[m])
<1> DEFINE D == 1 .. Len(tiers)
           unlocks == Unlocks(tiers)
           open == {n \in D : AtMost(unlocks[n], unlocks[m])}
           last == CHOOSE n \in open : \A k \in open : k <= n
<1>1. DOMAIN unlocks = D /\ \A n, k \in D : n <= k => AtMost(unlocks[n], unlocks[k])
  BY UnlocksAre
<1> HIDE DEF unlocks
<1>2. m \in open
  BY <1>1
<1>3. \E n \in open : \A k \in open : k <= n
  <2> DEFINE above(n) == {k \in D : k > n}
             T == {above(n) : n \in open}
  <2>1. IsFiniteSet(D) /\ T \subseteq SUBSET D /\ T # {}
    <3>1. IsFiniteSet(D)
      <4>1. Len(tiers) \in Int
        OBVIOUS
      <4> QED BY <4>1, FS_Interval
    <3>2. T \subseteq SUBSET D
      OBVIOUS
    <3>3. above(m) \in T
      BY <1>2
    <3> QED BY <3>1, <3>2, <3>3
  <2>2. PICK t \in T : \A u \in T : ~(u \subseteq t /\ u # t)
    <3> HIDE DEF T, D
    <3> QED BY <2>1, SmallestSubset
  <2>3. PICK n \in open : t = above(n)
    OBVIOUS
  <2>4. ASSUME NEW k \in open, k > n PROVE FALSE
    <3>1. above(k) \subseteq above(n) /\ k \in above(n) /\ k \notin above(k) /\ above(k) \in T
      BY <2>4
    <3> QED BY <2>2, <2>3, <3>1
  <2> QED BY <2>4
<1>4. last \in open /\ \A k \in open : k <= last
  BY <1>3
<1>5. ActiveAt(unlocks, unlocks[m]) = last
  BY <1>1, <1>2 DEF ActiveAt
<1> HIDE DEF last
<1>6. last \in D /\ m <= last
  BY <1>2, <1>4
<1> QED BY <1>1, <1>5, <1>6 DEF AtMost, unlocks

\* What is loaded from files that read holds together: skills and powers are
\* there, tiers are those unlocked.
LEMMA LoadedHoldsTogether ==
  ASSUME NEW content \in [FileNames -> Commits], Transformed(Raw(content), FALSE) # Refused
  PROVE  HoldsTogether(Transformed(Raw(content), FALSE))
<1> DEFINE raw == Raw(content)
           data == Transformed(raw, FALSE)
           loaded == {op \in DOMAIN raw.building.chars : OperatorLoads(raw, op)}
<1>1. /\ raw.building = Upstream[content["building"]].building
      /\ content["building"] \in Commits
  BY RawIs, FilesAre
<1>2. \A op \in DOMAIN raw.building.chars : raw.building.chars[op].slots \in Seq(Seq(TierData))
  BY <1>1, TablesAreTyped DEF Entries
<1> HIDE DEF raw
<1>3. /\ data.operators = [op \in loaded |-> Operator(raw, op)]
      /\ DOMAIN data.powers = DOMAIN raw.teams /\ DOMAIN data.skills = DOMAIN raw.building.buffs
  <2>1. Transformed(raw, FALSE) # Refused /\ FALSE \in BOOLEAN
    BY DEF raw
  <2>2. data.operators = [op \in loaded |-> Operator(raw, op)] /\ data.powers = Powers(raw.teams) /\ data.skills = Skills(raw.building)
    BY <2>1, TransformedIs, Zenon
  <2>3. DOMAIN Powers(raw.teams) = DOMAIN raw.teams /\ DOMAIN Skills(raw.building) = DOMAIN raw.building.buffs
    BY DEF Powers, Skills
  <2> HIDE DEF data
  <2> QED BY <2>2, <2>3
<1> HIDE DEF data
<1>4. ASSUME NEW op \in loaded
      PROVE  LET o == Operator(raw, op) IN
             /\ {o.nation, o.team} \ {NoPower} \subseteq DOMAIN raw.teams
             /\ \A i \in DOMAIN o.slots :
                  /\ \A n \in DOMAIN o.slots[i] : o.slots[i][n].buff \in DOMAIN raw.building.buffs
                  /\ \A m \in DOMAIN o.slots[i] :
                       LET active == ActiveAt(o.slots[i], o.slots[i][m])
                       IN active # 0 /\ ~Below(o.slots[i][active], o.slots[i][m])
  <2> DEFINE o == Operator(raw, op)
             given == raw.building.chars[op].slots
  <2>1. /\ o.nation = Nation(raw.characters[op]) /\ o.team = Team(raw.characters[op])
        /\ o.slots = [i \in DOMAIN given |-> Unlocks(given[i])]
    BY DEF Operator
  <2>2. /\ {o.nation, o.team} \ {NoPower} \subseteq DOMAIN raw.teams
        /\ \A tier \in Tiers(raw.building.chars[op]) : tier.buff \in DOMAIN raw.building.buffs
    BY <1>4, <2>1 DEF OperatorLoads
  <2>3. ASSUME NEW i \in DOMAIN given
        PROVE  /\ \A n \in DOMAIN o.slots[i] : o.slots[i][n].buff \in DOMAIN raw.building.buffs
               /\ \A m \in DOMAIN o.slots[i] :
                    LET active == ActiveAt(o.slots[i], o.slots[i][m])
                    IN active # 0 /\ ~Below(o.slots[i][active], o.slots[i][m])
    <3>1. given[i] \in Seq(TierData) /\ o.slots[i] = Unlocks(given[i])
      <4>1. given \in Seq(Seq(TierData))
        BY <1>2
      <4> QED BY <4>1, <2>1
    <3>2. DOMAIN o.slots[i] = 1 .. Len(given[i])
      BY <3>1, UnlocksAre
    <3>3. ASSUME NEW n \in 1 .. Len(given[i]) PROVE Unlocks(given[i])[n].buff \in DOMAIN raw.building.buffs
      <4>1. PICK k \in 1 .. Len(given[i]) : Unlocks(given[i])[n] = given[i][k]
        BY <3>1, UnlocksAre
      <4>2. given[i][k] \in Tiers(raw.building.chars[op])
        BY <3>1 DEF Tiers, Range
      <4> QED BY <2>2, <4>1, <4>2
    <3> HIDE DEF given, o
    <3> QED BY <3>1, <3>2, <3>3, ActiveIs
  <2> HIDE DEF given
  <2> QED BY <2>1, <2>2, <2>3
<1>5. DOMAIN data.operators = loaded /\ \A op \in loaded : data.operators[op] = Operator(raw, op)
  BY <1>3
<1> HIDE DEF loaded
<1>6. HoldsTogether(data)
  <2> SUFFICES ASSUME NEW op \in DOMAIN data.operators
               PROVE  LET o == data.operators[op] IN
                      /\ {o.nation, o.team} \ {NoPower} \subseteq DOMAIN data.powers
                      /\ \A i \in DOMAIN o.slots :
                           /\ \A n \in DOMAIN o.slots[i] : o.slots[i][n].buff \in DOMAIN data.skills
                           /\ \A m \in DOMAIN o.slots[i] :
                                LET active == ActiveAt(o.slots[i], o.slots[i][m])
                                IN active # 0 /\ ~Below(o.slots[i][active], o.slots[i][m])
    BY DEF HoldsTogether
  <2>1. op \in loaded /\ data.operators[op] = Operator(raw, op)
    BY <1>5
  <2> QED BY <1>3, <1>4, <2>1
<1> QED BY <1>6 DEF data, raw

\* A server that saw no file change serves the commit it says it does; whatever
\* it serves, its operators refer to what it has and to tiers they have unlocked.
THEOREM ServedWhole == Spec => []ServedIsWhole
<1>1. FilesInv => ServedIsWhole
  <2> SUFFICES ASSUME FilesInv, server.step = "serving"
               PROVE  /\ sound => \A f \in FileNames : server.content[f] = server.sha
                      /\ HoldsTogether(server.data)
    BY DEF ServedIsWhole
  <2>1. server.content \in [FileNames -> Commits] /\ server = Serving(server.content, server.sha)
    BY DEF FilesInv, TypeOK, Off
  <2>2. server.data = Transformed(Raw(server.content), FALSE) /\ server.data # Refused
    <3>1. \A c, s : Serving(c, s).data = Transformed(Raw(c), FALSE)
      BY DEF Serving
    <3> QED BY <2>1, <3>1 DEF FilesInv, LoadedInv
  <2> QED BY <2>1, <2>2, LoadedHoldsTogether DEF FilesInv, LoadedInv
<1> QED BY <1>1, FilesInvariant, PTL

-----------------------------------------------------------------------------
(* Imports: what the Builder holds after each entry.                        *)

WarningKinds == {"unknown", "duplicate", "promotion clamped", "level clamped", "no saved plan"}
Warnings == [kind : WarningKinds, op : STRING]
IsBuilder(b) ==
  /\ DOMAIN b = {"roster", "warnings", "seen", "entries", "notOwned"}
  /\ b.warnings \in Seq(Warnings) /\ b.entries \in Nat /\ b.notOwned \in Nat

\* Operators have promotions and levels.
Promotes(data) == \A op \in DOMAIN data.operators :
  LET o == data.operators[op] IN o.maxLevels \in Seq(Nat \ {0}) /\ Len(o.maxLevels) >= 1

IsAsked(asked) ==
  /\ asked.asks \in {"count", "add", "show", "nothing"}
  /\ asked.asks \in {"add", "show"} => asked.op \in STRING
  /\ asked.asks = "add" => asked.elite \in ElitePhases /\ asked.level \in Int

\* After n entries: every entry counts once, the roster fits the operators, and
\* who is in it with nothing told is as the entries have it.
BuilderInv(data, b, asked, n) ==
  /\ IsBuilder(b) /\ b.seen = DOMAIN b.roster
  /\ IsFiniteSet(DOMAIN b.roster) /\ DOMAIN b.roster \subseteq DOMAIN data.operators
  /\ b.entries = Cardinality(DOMAIN b.roster) + b.notOwned + Count(b, "unknown") + Count(b, "duplicate")
  /\ \A op \in DOMAIN b.roster :
       /\ b.roster[op].phase \in 0 .. MaxPhase(data.operators[op])
       /\ b.roster[op].level \in 1 .. Cap(data.operators[op], b.roster[op].phase)
  /\ \A i \in 1 .. n : asked[i].asks = "add" /\ asked[i].op \in DOMAIN data.operators =>
       /\ asked[i].op \in DOMAIN b.roster
       /\ \/ ToldOf(b, asked[i].op) # {}
          \/ b.roster[asked[i].op] = [phase |-> asked[i].elite, level |-> asked[i].level]

\* Warnings of a kind are counted.
LEMMA CountIs ==
  ASSUME NEW b, IsBuilder(b), NEW k
  PROVE  /\ IsFiniteSet({i \in DOMAIN b.warnings : b.warnings[i].kind = k})
         /\ Count(b, k) \in Nat
<1>1. DOMAIN b.warnings = 1 .. Len(b.warnings) /\ Len(b.warnings) \in Nat
  BY DEF IsBuilder
<1>2. IsFiniteSet(DOMAIN b.warnings)
  BY <1>1, FS_Interval
<1> QED BY <1>2, FS_Subset, FS_CardinalityType DEF Count

\* A warning counts as one of its kind, and is told of its operator.
Warned(b, c, kind, op) ==
  /\ IsBuilder(c)
  /\ c.roster = b.roster /\ c.seen = b.seen /\ c.entries = b.entries /\ c.notOwned = b.notOwned
  /\ \A k : /\ Count(b, k) \in Nat
            /\ Count(c, k) = IF k = kind THEN Count(b, k) + 1 ELSE Count(b, k)
  /\ \A o : ToldOf(b, o) \subseteq ToldOf(c, o)
  /\ ToldOf(c, op) # {}

\* One more warning of a kind, of an operator.
LEMMA WarnIs ==
  ASSUME NEW b, IsBuilder(b), NEW kind \in WarningKinds, NEW op \in STRING
  PROVE  Warned(b, Warn(b, kind, op), kind, op)
<1> DEFINE c == Warn(b, kind, op)  w == [kind |-> kind, op |-> op]  n == Len(b.warnings)
<1>1. c = [b EXCEPT !.warnings = Append(b.warnings, w)]
  BY DEF Warn
<1>2. /\ c.roster = b.roster /\ c.seen = b.seen /\ c.entries = b.entries /\ c.notOwned = b.notOwned
      /\ c.warnings = Append(b.warnings, w) /\ DOMAIN c = DOMAIN b
  <2> HIDE DEF c, w
  <2> QED BY <1>1 DEF IsBuilder
<1>3. w \in Warnings /\ w.kind = kind /\ w.op = op
  BY DEF Warnings
<1> HIDE DEF c, w
<1>4. /\ c.warnings \in Seq(Warnings) /\ DOMAIN c.warnings = 1 .. n + 1 /\ DOMAIN b.warnings = 1 .. n /\ n \in Nat
      /\ c.warnings[n + 1] = w /\ \A i \in 1 .. n : c.warnings[i] = b.warnings[i]
  BY <1>2, <1>3 DEF IsBuilder
<1>5. IsBuilder(c)
  BY <1>1, <1>2, <1>4 DEF IsBuilder
<1>6. ASSUME NEW k
      PROVE  /\ Count(b, k) \in Nat
             /\ Count(c, k) = IF k = kind THEN Count(b, k) + 1 ELSE Count(b, k)
  <2> DEFINE before == {i \in 1 .. n : b.warnings[i].kind = k}
             after == {i \in 1 .. n + 1 : c.warnings[i].kind = k}
  <2>1. Count(b, k) = Cardinality(before) /\ Count(c, k) = Cardinality(after)
    BY <1>4 DEF Count
  <2>2. IsFiniteSet(before)
    BY <1>4, CountIs
  <2>3. after = (IF k = kind THEN before \cup {n + 1} ELSE before) /\ n + 1 \notin before
    <3>1. 1 .. n + 1 = (1 .. n) \cup {n + 1} /\ n + 1 \notin 1 .. n
      BY <1>4
    <3> QED BY <3>1, <1>3, <1>4
  <2> HIDE DEF before, after
  <2>4. Cardinality(before) \in Nat /\ Cardinality(before \cup {n + 1}) = Cardinality(before) + 1
    BY <2>2, <2>3, FS_AddElement, FS_CardinalityType
  <2> QED BY <2>1, <2>3, <2>4
<1>7. ASSUME NEW o PROVE ToldOf(b, o) \subseteq ToldOf(c, o)
  BY <1>4 DEF ToldOf
<1>8. ToldOf(c, op) # {}
  <2>1. n + 1 \in DOMAIN c.warnings /\ c.warnings[n + 1].op = op
    BY <1>3, <1>4
  <2> QED BY <2>1 DEF ToldOf
<1> QED BY <1>2, <1>5, <1>6, <1>7, <1>8 DEF c, Warned

\* What adding does.
LEMMA AddIs ==
  ASSUME NEW data, Promotes(data), NEW b, IsBuilder(b), NEW op \in STRING, NEW elite \in ElitePhases, NEW level \in Int
  PROVE  LET c == Add(data, b, op, elite, level)  known == op \in DOMAIN data.operators
             entry == Raised(data.operators[op], elite, level) IN
         /\ IsBuilder(c)
         /\ c.roster = IF known THEN [x \in DOMAIN b.roster \cup {op} |-> IF x = op THEN entry ELSE b.roster[x]] ELSE b.roster
         /\ c.seen = IF known THEN b.seen \cup {op} ELSE b.seen
         /\ c.entries = b.entries + 1 /\ c.notOwned = b.notOwned
         /\ Count(b, "unknown") \in Nat /\ Count(b, "duplicate") \in Nat
         /\ Count(c, "unknown") = IF known THEN Count(b, "unknown") ELSE Count(b, "unknown") + 1
         /\ Count(c, "duplicate") = IF known /\ op \in b.seen THEN Count(b, "duplicate") + 1 ELSE Count(b, "duplicate")
         /\ \A o : ToldOf(b, o) \subseteq ToldOf(c, o)
         /\ known => /\ op \in b.seen => ToldOf(c, op) # {}
                     /\ ToldOf(c, op) # {} \/ entry = [phase |-> elite, level |-> level]
                     /\ entry.phase \in 0 .. MaxPhase(data.operators[op])
                     /\ entry.level \in 1 .. Cap(data.operators[op], entry.phase)
<1> DEFINE o == data.operators[op]
           entry == Raised(o, elite, level)
           counted == [b EXCEPT !.entries = @ + 1]
           seen == [counted EXCEPT !.seen = @ \cup {op}]
           noted == IF op \in b.seen THEN Warn(seen, "duplicate", op) ELSE seen
           said == Told(noted, o, op, elite, level)
           c == Add(data, b, op, elite, level)
<1>1. /\ IsBuilder(counted)
      /\ counted.roster = b.roster /\ counted.warnings = b.warnings /\ counted.seen = b.seen
      /\ counted.entries = b.entries + 1 /\ counted.notOwned = b.notOwned
  BY DEF IsBuilder
<1>2. /\ IsBuilder(seen)
      /\ seen.roster = b.roster /\ seen.warnings = b.warnings /\ seen.seen = b.seen \cup {op}
      /\ seen.entries = b.entries + 1 /\ seen.notOwned = b.notOwned
  <2> HIDE DEF counted
  <2>1. seen = [counted EXCEPT !.seen = counted.seen \cup {op}]
    OBVIOUS
  <2> HIDE DEF seen
  <2> QED BY <1>1, <2>1 DEF IsBuilder
<1>3. CASE op \notin DOMAIN data.operators
  <2>1. c = Warn(counted, "unknown", op)
    BY <1>3 DEF Add
  <2>2. counted.warnings = b.warnings
    BY <1>1
  <2>3. \A k : Count(counted, k) = Count(b, k) /\ ToldOf(counted, k) = ToldOf(b, k)
    BY <2>2 DEF Count, ToldOf
  <2>4. /\ counted.roster = b.roster /\ counted.seen = b.seen /\ counted.entries = b.entries + 1
        /\ counted.notOwned = b.notOwned
    BY <1>1
  <2> HIDE DEF counted, c
  <2>5. /\ IsBuilder(c)
        /\ c.roster = b.roster /\ c.seen = b.seen /\ c.entries = b.entries + 1 /\ c.notOwned = b.notOwned
        /\ \A k : Count(b, k) \in Nat /\ Count(c, k) = IF k = "unknown" THEN Count(b, k) + 1 ELSE Count(b, k)
        /\ \A k : ToldOf(b, k) \subseteq ToldOf(c, k)
    <3>1. Warned(counted, c, "unknown", op)
      BY <1>1, <2>1, WarnIs DEF WarningKinds
    <3> QED BY <2>3, <2>4, <3>1 DEF Warned
  <2> QED BY <1>3, <2>5 DEF c
<1>4. CASE op \in DOMAIN data.operators
  <2>1. c = [said EXCEPT !.roster = [x \in DOMAIN @ \cup {op} |-> IF x = op THEN entry ELSE @[x]]]
    BY <1>4 DEF Add
  <2>2. /\ o.maxLevels \in Seq(Nat \ {0}) /\ Len(o.maxLevels) >= 1
        /\ MaxPhase(o) \in Nat /\ \A p \in 0 .. MaxPhase(o) : Cap(o, p) \in Nat \ {0}
    <3>1. o.maxLevels \in Seq(Nat \ {0}) /\ Len(o.maxLevels) >= 1
      BY <1>4 DEF Promotes
    <3> HIDE DEF o
    <3>2. MaxPhase(o) \in Nat /\ \A p \in 0 .. MaxPhase(o) : p + 1 \in 1 .. Len(o.maxLevels)
      BY <3>1 DEF MaxPhase
    <3> QED BY <3>1, <3>2 DEF Cap
  <2>3. seen.warnings = b.warnings
    BY <1>2
  <2>4. \A k : Count(seen, k) = Count(b, k) /\ ToldOf(seen, k) = ToldOf(b, k)
    BY <2>3 DEF Count, ToldOf
  <2>5. /\ seen.roster = b.roster /\ seen.seen = b.seen \cup {op} /\ seen.entries = b.entries + 1
        /\ seen.notOwned = b.notOwned
    BY <1>2
  <2>6. elite \in Nat
    BY DEF ElitePhases
  <2> HIDE DEF o, seen
  <2>7. /\ IsBuilder(noted)
        /\ noted.roster = b.roster /\ noted.seen = b.seen \cup {op} /\ noted.entries = b.entries + 1
        /\ noted.notOwned = b.notOwned
        /\ \A k : /\ Count(b, k) \in Nat
                  /\ Count(noted, k) = IF op \in b.seen /\ k = "duplicate" THEN Count(b, k) + 1 ELSE Count(b, k)
        /\ \A k : ToldOf(b, k) \subseteq ToldOf(noted, k)
        /\ op \in b.seen => ToldOf(noted, op) # {}
    <3>1. \A k : Count(b, k) \in Nat
      <4>1. Warned(seen, Warn(seen, "duplicate", op), "duplicate", op)
        BY <1>2, WarnIs DEF WarningKinds
      <4> QED BY <2>4, <4>1 DEF Warned
    <3>2. CASE op \in b.seen
      <4>1. Warned(seen, noted, "duplicate", op)
        BY <3>2, <1>2, WarnIs DEF WarningKinds
      <4> HIDE DEF noted
      <4> QED BY <3>2, <2>4, <2>5, <4>1 DEF Warned
    <3>3. CASE op \notin b.seen
      BY <3>1, <3>3, <1>2, <2>4, <2>5
    <3> QED BY <3>2, <3>3
  <2> HIDE DEF noted
  <2>8. /\ IsBuilder(said)
        /\ said.roster = b.roster /\ said.seen = b.seen \cup {op} /\ said.entries = b.entries + 1
        /\ said.notOwned = b.notOwned
        /\ Count(said, "unknown") = Count(noted, "unknown") /\ Count(said, "duplicate") = Count(noted, "duplicate")
        /\ \A k : ToldOf(noted, k) \subseteq ToldOf(said, k)
        /\ elite > MaxPhase(o) \/ Clamp(level, Cap(o, elite)) # level => ToldOf(said, op) # {}
    <3>1. CASE elite > MaxPhase(o)
      <4>1. said = Warn(noted, "promotion clamped", op)
        BY <3>1 DEF Told
      <4> HIDE DEF said
      <4>2. Warned(noted, said, "promotion clamped", op)
        BY <4>1, <2>7, WarnIs DEF WarningKinds
      <4> QED BY <4>2, <2>7 DEF Warned
    <3>2. CASE ~(elite > MaxPhase(o)) /\ Clamp(level, Cap(o, elite)) # level
      <4>1. said = Warn(noted, "level clamped", op)
        BY <3>2 DEF Told
      <4> HIDE DEF said
      <4>2. Warned(noted, said, "level clamped", op)
        BY <4>1, <2>7, WarnIs DEF WarningKinds
      <4> QED BY <4>2, <2>7 DEF Warned
    <3>3. CASE ~(elite > MaxPhase(o)) /\ Clamp(level, Cap(o, elite)) = level
      <4>1. said = noted
        BY <3>3 DEF Told
      <4> QED BY <3>3, <4>1, <2>7
    <3> QED BY <3>1, <3>2, <3>3
  <2>9. /\ entry.phase \in 0 .. MaxPhase(o) /\ entry.level \in 1 .. Cap(o, entry.phase)
        /\ \/ elite > MaxPhase(o) \/ Clamp(level, Cap(o, elite)) # level
           \/ entry = [phase |-> elite, level |-> level]
    <3>1. CASE elite > MaxPhase(o)
      BY <3>1, <2>2 DEF Raised
    <3>2. CASE ~(elite > MaxPhase(o))
      <4>1. entry = [phase |-> elite, level |-> Clamp(level, Cap(o, elite))] /\ elite \in 0 .. MaxPhase(o)
        BY <3>2, <2>2, <2>6 DEF Raised
      <4>2. Clamp(level, Cap(o, elite)) \in 1 .. Cap(o, elite)
        BY <4>1, <2>2 DEF Clamp
      <4> QED BY <4>1, <4>2
    <3> QED BY <3>1, <3>2
  <2> HIDE DEF said, entry, c
  <2>10. /\ IsBuilder(c)
         /\ c.roster = [x \in DOMAIN b.roster \cup {op} |-> IF x = op THEN entry ELSE b.roster[x]]
         /\ c.seen = said.seen /\ c.entries = said.entries /\ c.notOwned = said.notOwned /\ c.warnings = said.warnings
    BY <2>1, <2>8 DEF IsBuilder
  <2>11. \A k : Count(c, k) = Count(said, k) /\ ToldOf(c, k) = ToldOf(said, k)
    BY <2>10 DEF Count, ToldOf
  <2> QED BY <1>4, <2>7, <2>8, <2>9, <2>10, <2>11 DEF c, entry, o
<1> QED BY <1>3, <1>4

\* What an entry asks for keeps the invariant.
LEMMA TakeKeeps ==
  ASSUME NEW data, Promotes(data), NEW asked, NEW n \in Nat \ {0}, IsAsked(asked[n]),
         NEW b, BuilderInv(data, b, asked, n - 1)
  PROVE  BuilderInv(data, Take(data, b, asked[n]), asked, n)
<1> DEFINE r == asked[n]
<1>0. 1 .. n = (1 .. n - 1) \cup {n} /\ 0 \in ElitePhases /\ 1 \in Int /\ "no saved plan" \in WarningKinds
  BY DEF ElitePhases, WarningKinds
<1>1. CASE r.asks = "nothing"
  <2>1. Take(data, b, r) = b
    BY <1>1 DEF Take
  <2> QED BY <1>0, <1>1, <2>1 DEF BuilderInv
<1>2. CASE r.asks = "count"
  <2>1. Take(data, b, r) = NotOwned(b)
    BY <1>2 DEF Take
  <2> DEFINE c == NotOwned(b)
  <2>2. /\ IsBuilder(c) /\ c.roster = b.roster /\ c.seen = b.seen /\ c.warnings = b.warnings
        /\ c.entries = b.entries + 1 /\ c.notOwned = b.notOwned + 1
    <3>1. c = [[b EXCEPT !.entries = b.entries + 1] EXCEPT !.notOwned = b.notOwned + 1]
      BY DEF NotOwned, BuilderInv, IsBuilder
    <3> HIDE DEF c
    <3> QED BY <3>1 DEF BuilderInv, IsBuilder
  <2> HIDE DEF c
  <2>3. \A k : Count(c, k) = Count(b, k) /\ ToldOf(c, k) = ToldOf(b, k)
    BY <2>2 DEF Count, ToldOf
  <2>4. Count(b, "unknown") \in Nat /\ Count(b, "duplicate") \in Nat /\ Cardinality(DOMAIN b.roster) \in Nat
    BY CountIs, FS_CardinalityType DEF BuilderInv
  <2>5. c.entries = Cardinality(DOMAIN c.roster) + c.notOwned + Count(c, "unknown") + Count(c, "duplicate")
    <3>1. /\ b.entries = Cardinality(DOMAIN b.roster) + b.notOwned + Count(b, "unknown") + Count(b, "duplicate")
          /\ b.entries \in Nat /\ b.notOwned \in Nat
      BY DEF BuilderInv, IsBuilder
    <3>2. /\ Count(c, "unknown") = Count(b, "unknown") /\ Count(c, "duplicate") = Count(b, "duplicate")
          /\ c.roster = b.roster
      BY <2>2, <2>3
    <3> QED BY <3>1, <3>2, <2>2, <2>4
  <2>6. ASSUME NEW i \in 1 .. n, asked[i].asks = "add" PROVE i \in 1 .. n - 1
    BY <1>0, <1>2, <2>6
  <2>7. BuilderInv(data, c, asked, n)
    BY <2>2, <2>3, <2>5, <2>6 DEF BuilderInv
  <2> QED BY <2>1, <2>7 DEF c
<1>3. ASSUME NEW d, BuilderInv(data, d, asked, n - 1), NEW elite \in ElitePhases, NEW level \in Int, NEW op \in STRING,
             r.asks = "add" => r.op = op /\ r.elite = elite /\ r.level = level
      PROVE  BuilderInv(data, Add(data, d, op, elite, level), asked, n)
  <2> DEFINE c == Add(data, d, op, elite, level)
             entry == Raised(data.operators[op], elite, level)
             known == op \in DOMAIN data.operators
             U == Count(d, "unknown")
             D == Count(d, "duplicate")
  <2>1. /\ IsBuilder(c)
        /\ c.roster = IF known THEN [x \in DOMAIN d.roster \cup {op} |-> IF x = op THEN entry ELSE d.roster[x]] ELSE d.roster
        /\ c.seen = IF known THEN d.seen \cup {op} ELSE d.seen
        /\ c.entries = d.entries + 1 /\ c.notOwned = d.notOwned
        /\ U \in Nat /\ D \in Nat
        /\ Count(c, "unknown") = IF known THEN U ELSE U + 1
        /\ Count(c, "duplicate") = IF known /\ op \in d.seen THEN D + 1 ELSE D
        /\ \A o : ToldOf(d, o) \subseteq ToldOf(c, o)
        /\ known => /\ op \in d.seen => ToldOf(c, op) # {}
                    /\ ToldOf(c, op) # {} \/ entry = [phase |-> elite, level |-> level]
                    /\ entry.phase \in 0 .. MaxPhase(data.operators[op])
                    /\ entry.level \in 1 .. Cap(data.operators[op], entry.phase)
    BY <1>3, AddIs DEF BuilderInv
  <2> HIDE DEF c, entry, U, D
  <2>2. /\ DOMAIN c.roster = IF known THEN DOMAIN d.roster \cup {op} ELSE DOMAIN d.roster
        /\ known => c.roster[op] = entry
        /\ \A o \in DOMAIN d.roster : o # op \/ ~known => c.roster[o] = d.roster[o]
        /\ c.seen = DOMAIN c.roster
    BY <1>3, <2>1 DEF BuilderInv
  <2>3. /\ IsFiniteSet(DOMAIN c.roster) /\ Cardinality(DOMAIN d.roster) \in Nat
        /\ Cardinality(DOMAIN c.roster) =
             IF known /\ op \notin d.seen THEN Cardinality(DOMAIN d.roster) + 1 ELSE Cardinality(DOMAIN d.roster)
    <3>1. IsFiniteSet(DOMAIN d.roster) /\ d.seen = DOMAIN d.roster
      BY <1>3 DEF BuilderInv
    <3>2. CASE known /\ op \notin d.seen
      BY <3>1, <3>2, <2>2, FS_AddElement, FS_CardinalityType
    <3>3. CASE ~(known /\ op \notin d.seen)
      <4>1. DOMAIN c.roster = DOMAIN d.roster
        BY <3>1, <3>3, <2>2
      <4> QED BY <3>1, <3>3, <4>1, FS_CardinalityType
    <3> QED BY <3>2, <3>3
  <2>4. c.entries = Cardinality(DOMAIN c.roster) + c.notOwned + Count(c, "unknown") + Count(c, "duplicate")
    <3>1. d.entries = Cardinality(DOMAIN d.roster) + d.notOwned + U + D /\ d.notOwned \in Nat
      BY <1>3 DEF BuilderInv, IsBuilder, U, D
    <3> QED BY <3>1, <2>1, <2>3
  <2>5. DOMAIN c.roster \subseteq DOMAIN data.operators
    BY <1>3, <2>2 DEF BuilderInv
  <2>6. ASSUME NEW o \in DOMAIN c.roster
        PROVE  /\ c.roster[o].phase \in 0 .. MaxPhase(data.operators[o])
               /\ c.roster[o].level \in 1 .. Cap(data.operators[o], c.roster[o].phase)
    <3>1. CASE known /\ o = op
      BY <3>1, <2>1, <2>2
    <3>2. CASE ~(known /\ o = op)
      <4>1. o \in DOMAIN d.roster /\ c.roster[o] = d.roster[o]
        BY <3>2, <2>2
      <4> QED BY <1>3, <4>1 DEF BuilderInv
    <3> QED BY <3>1, <3>2
  <2>7. ASSUME NEW i \in 1 .. n, asked[i].asks = "add", asked[i].op \in DOMAIN data.operators
        PROVE  /\ asked[i].op \in DOMAIN c.roster
               /\ \/ ToldOf(c, asked[i].op) # {}
                  \/ c.roster[asked[i].op] = [phase |-> asked[i].elite, level |-> asked[i].level]
    <3> DEFINE o == asked[i].op
    <3>1. CASE i = n
      <4>1. o = op /\ asked[i].elite = elite /\ asked[i].level = level
        BY <3>1, <2>7, <1>3
      <4> QED BY <4>1, <2>1, <2>2, <2>7
    <3>2. CASE i # n
      <4>1. /\ o \in DOMAIN d.roster
            /\ ToldOf(d, o) # {} \/ d.roster[o] = [phase |-> asked[i].elite, level |-> asked[i].level]
        BY <3>2, <1>0, <1>3, <2>7 DEF BuilderInv
      <4>2. CASE ToldOf(d, o) # {}
        BY <4>1, <4>2, <2>1, <2>2
      <4>3. CASE known /\ o = op
        <5>1. op \in d.seen
          BY <4>1, <4>3, <1>3 DEF BuilderInv
        <5> QED BY <4>1, <4>3, <5>1, <2>1, <2>2
      <4>4. CASE ~(known /\ o = op) /\ d.roster[o] = [phase |-> asked[i].elite, level |-> asked[i].level]
        BY <4>1, <4>4, <2>2
      <4> QED BY <4>1, <4>2, <4>3, <4>4
    <3> QED BY <3>1, <3>2
  <2>8. BuilderInv(data, c, asked, n)
    BY <2>1, <2>2, <2>3, <2>4, <2>5, <2>6, <2>7 DEF BuilderInv
  <2> QED BY <2>8 DEF c
<1>4. CASE r.asks = "add"
  <2>1. Take(data, b, r) = Add(data, b, r.op, r.elite, r.level)
    BY <1>4 DEF Take
  <2>2. r.op \in STRING /\ r.elite \in ElitePhases /\ r.level \in Int
    BY <1>4 DEF IsAsked
  <2> HIDE DEF r
  <2> QED BY <1>3, <2>1, <2>2 DEF r
<1>5. CASE r.asks = "show"
  <2> DEFINE d == Warn(b, "no saved plan", r.op)
  <2>1. Take(data, b, r) = Add(data, d, r.op, 0, 1) /\ r.op \in STRING
    BY <1>5 DEF Take, IsAsked
  <2>2. Warned(b, d, "no saved plan", r.op)
    BY <1>0, <2>1, WarnIs DEF BuilderInv
  <2> HIDE DEF d
  <2>3. Count(d, "unknown") = Count(b, "unknown") /\ Count(d, "duplicate") = Count(b, "duplicate")
    BY <2>2 DEF Warned
  <2>4. BuilderInv(data, d, asked, n - 1)
    BY <2>2, <2>3 DEF Warned, BuilderInv
  <2> QED BY <1>0, <1>3, <1>5, <2>1, <2>4
<1> QED BY <1>1, <1>2, <1>4, <1>5 DEF IsAsked

\* Numbers have a smallest one.
LEMMA SmallestNumber ==
  ASSUME NEW T, T \subseteq Nat, T # {}
  PROVE  \E n \in T : \A m \in T : n <= m
<1>1. PICK k \in T : TRUE
  OBVIOUS
<1> DEFINE low == {n \in T : n <= k}
           below == {1 .. n : n \in low}
<1>2. PICK K : K = 1 .. k
  OBVIOUS
<1>3. IsFiniteSet(K) /\ below \subseteq SUBSET K /\ below # {}
  <2>1. IsFiniteSet(1 .. k)
    BY FS_Interval
  <2>2. \A u \in below : u \subseteq 1 .. k
    OBVIOUS
  <2> QED BY <2>1, <2>2, <1>2
<1>4. PICK t \in below : \A u \in below : ~(u \subseteq t /\ u # t)
  <2> HIDE DEF below
  <2> QED BY <1>3, SmallestSubset
<1>5. PICK n \in low : t = 1 .. n
  BY <1>4
<1>6. ASSUME NEW m \in T, m < n PROVE FALSE
  <2>1. m \in low /\ (1 .. m) \subseteq (1 .. n) /\ n \in 1 .. n /\ n \notin 1 .. m
    BY <1>5, <1>6
  <2> QED BY <2>1, <1>4, <1>5
<1> QED BY <1>5, <1>6

\* A Builder that has read nothing.
LEMMA FreshIs == ASSUME NEW data, NEW asked PROVE BuilderInv(data, Fresh, asked, 0)
<1>1. /\ DOMAIN Fresh = {"roster", "warnings", "seen", "entries", "notOwned"}
      /\ Fresh.roster = <<>> /\ Fresh.warnings = <<>> /\ Fresh.seen = {} /\ Fresh.entries = 0 /\ Fresh.notOwned = 0
  BY DEF Fresh
<1>2. DOMAIN <<>> = {} /\ <<>> \in Seq(Warnings)
  OBVIOUS
<1>3. IsFiniteSet({}) /\ Cardinality({}) = 0
  BY FS_EmptySet
<1>4. \A k : Count(Fresh, k) = 0
  BY <1>1, <1>2, <1>3 DEF Count
<1> HIDE DEF Fresh
<1>5. 1 .. 0 = {}
  OBVIOUS
<1> QED BY <1>1, <1>2, <1>3, <1>4, <1>5 DEF BuilderInv, IsBuilder

\* What the Builder holds when all entries were read.
LEMMA BuiltIs ==
  ASSUME NEW data, Promotes(data), NEW asked, Len(asked) \in Nat, DOMAIN asked = 1 .. Len(asked),
         \A i \in DOMAIN asked : asked[i] = Bad \/ IsAsked(asked[i]),
         Built(data, asked) # Failed
  PROVE  /\ BuilderInv(data, Built(data, asked), asked, Len(asked))
         /\ \A i \in DOMAIN asked : asked[i] # Bad
<1> DEFINE N == Len(asked)
           Turns(n, g) == g = [k \in 0 .. n |-> IF k = 0 THEN Fresh ELSE Take(data, g[k - 1], asked[k])]
           missing == {n \in Nat : ~\E g : Turns(n, g)}
<1>1. \E g : Turns(N, g)
  <2> SUFFICES ASSUME missing # {} PROVE FALSE
    OBVIOUS
  <2>1. PICK n \in missing : \A m \in missing : n <= m
    BY SmallestNumber
  <2>2. n # 0
    <3>1. Turns(0, [k \in 0 .. 0 |-> Fresh])
      OBVIOUS
    <3>2. 0 \notin missing
      BY <3>1
    <3> QED BY <3>2, <2>1
  <2>3. n - 1 \in Nat /\ n - 1 \notin missing
    <3>1. n \in Nat
      OBVIOUS
    <3> HIDE DEF missing
    <3> QED BY <2>1, <2>2, <3>1
  <2>4. PICK g : Turns(n - 1, g)
    BY <2>3
  <2> DEFINE h == [k \in 0 .. n |-> IF k = n THEN Take(data, g[n - 1], asked[n]) ELSE g[k]]
  <2>5. \A k \in 0 .. n - 1 : h[k] = g[k] /\ g[k] = IF k = 0 THEN Fresh ELSE Take(data, g[k - 1], asked[k])
    BY <2>4
  <2>6. \A k \in 0 .. n : h[k] = IF k = 0 THEN Fresh ELSE Take(data, h[k - 1], asked[k])
    <3> SUFFICES ASSUME NEW k \in 0 .. n PROVE h[k] = IF k = 0 THEN Fresh ELSE Take(data, h[k - 1], asked[k])
      OBVIOUS
    <3>1. CASE k = n
      <4>1. h[n] = Take(data, g[n - 1], asked[n]) /\ n - 1 \in 0 .. n - 1
        BY <2>2, <2>3
      <4> HIDE DEF h
      <4> QED BY <3>1, <4>1, <2>2, <2>5
    <3>2. CASE k # n
      <4>1. k \in 0 .. n - 1 /\ (k # 0 => k - 1 \in 0 .. n - 1)
        BY <3>2
      <4> HIDE DEF h
      <4> QED BY <4>1, <2>5
    <3> QED BY <3>1, <3>2
  <2>7. h = [k \in 0 .. n |-> h[k]]
    OBVIOUS
  <2>8. Turns(n, h)
    <3> HIDE DEF h
    <3> QED BY <2>6, <2>7
  <2> HIDE DEF h
  <2>9. n \notin missing
    BY <2>8
  <2> HIDE DEF missing
  <2> QED BY <2>1, <2>9
<1>2. PICK after : after = CHOOSE g : Turns(N, g)
  OBVIOUS
<1>3. Turns(N, after)
  BY <1>1, <1>2
<1>4. Bad \notin Range(asked) /\ Built(data, asked) = after[N]
  BY <1>2 DEF Built
<1>5. \A i \in 1 .. N : asked[i] # Bad /\ IsAsked(asked[i])
  BY <1>4 DEF Range
<1> DEFINE wrong == {n \in 0 .. N : ~BuilderInv(data, after[n], asked, n)}
<1>6. wrong = {}
  <2> SUFFICES ASSUME wrong # {} PROVE FALSE
    OBVIOUS
  <2>1. PICK n \in wrong : \A m \in wrong : n <= m
    <3>1. wrong \subseteq Nat
      OBVIOUS
    <3> HIDE DEF wrong
    <3> QED BY <3>1, SmallestNumber
  <2>2. n \in 0 .. N /\ ~BuilderInv(data, after[n], asked, n)
    OBVIOUS
  <2>3. after[n] = IF n = 0 THEN Fresh ELSE Take(data, after[n - 1], asked[n])
    BY <1>3, <2>2
  <2>4. n # 0
    BY <2>2, <2>3, FreshIs
  <2>5. BuilderInv(data, after[n - 1], asked, n - 1)
    <3>1. n - 1 \in 0 .. N /\ ~(n <= n - 1)
      BY <2>2, <2>4
    <3>2. n - 1 \notin wrong
      <4> HIDE DEF wrong
      <4> QED BY <2>1, <3>1
    <3> QED BY <3>1, <3>2
  <2>6. n \in Nat \ {0} /\ IsAsked(asked[n])
    BY <1>5, <2>2, <2>4
  <2> QED BY <2>2, <2>3, <2>4, <2>5, <2>6, TakeKeeps
<1> QED BY <1>4, <1>5, <1>6

\* What an entry asks, if it does not fail the import; an owned one is added as
\* it is.
AddsIt(asked, e) ==
  /\ asked # Bad
  /\ asked.asks = "add" /\ asked.op = e.id /\ asked.elite = e.elite /\ asked.level = e.level

\* An owned entry is added as it is, or fails the import.
LEMMA OwnsIs ==
  ASSUME NEW e, e.id \in STRING, e.level \in Int
  PROVE  Owns(e) = Bad \/ (IsAsked(Owns(e)) /\ AddsIt(Owns(e), e))
<1> DEFINE r == [asks |-> "add", op |-> e.id, elite |-> e.elite, level |-> e.level]
<1>1. r.asks = "add" /\ r.op = e.id /\ r.elite = e.elite /\ r.level = e.level
  OBVIOUS
<1>2. Bad.asks = "failure"
  BY DEF Bad
<1> HIDE DEF r
<1>3. r # Bad
  BY <1>1, <1>2
<1>4. IsPromotion(e.elite) => IsAsked(r) /\ AddsIt(r, e)
  BY <1>1, <1>3 DEF IsAsked, AddsIt, IsPromotion
<1>5. Owns(e) = IF IsPromotion(e.elite) /\ IsNumber(e.level) THEN r ELSE Bad
  BY DEF Owns, r
<1> QED BY <1>4, <1>5

\* So it is in all shapes of exports.
LEMMA EntryAsks ==
  /\ IsAsked(Unowned) /\ IsAsked(Planned) /\ \A id \in STRING : IsAsked(Shown(id))
  /\ \A e \in KroosterEntry :
       /\ Current(e) = Bad \/ (IsAsked(Current(e)) /\ (e.potential >= 1 => AddsIt(Current(e), e)))
       /\ Older(e) = Bad \/ (IsAsked(Older(e)) /\ (e.potential >= 1 /\ ~e.disowned => AddsIt(Older(e), e)))
  /\ \A e \in PlanEntry : Plan(e) = Bad \/ (IsAsked(Plan(e)) /\ AddsIt(Plan(e), e))
<1>1. IsAsked(Unowned) /\ IsAsked(Planned)
  <2>1. Unowned.asks = "count" /\ Planned.asks = "nothing"
    BY DEF Unowned, Planned
  <2> QED BY <2>1 DEF IsAsked
<1>2. ASSUME NEW id \in STRING PROVE IsAsked(Shown(id))
  <2>1. Shown(id).asks = "show" /\ Shown(id).op = id
    BY DEF Shown
  <2> QED BY <2>1 DEF IsAsked
<1>3. ASSUME NEW e \in KroosterEntry
      PROVE  /\ Current(e) = Bad \/ (IsAsked(Current(e)) /\ (e.potential >= 1 => AddsIt(Current(e), e)))
             /\ Older(e) = Bad \/ (IsAsked(Older(e)) /\ (e.potential >= 1 /\ ~e.disowned => AddsIt(Older(e), e)))
  <2>1. e.id \in STRING /\ e.level \in Int /\ e.potential \in Int
    BY DEF KroosterEntry
  <2>2. Owns(e) = Bad \/ (IsAsked(Owns(e)) /\ AddsIt(Owns(e), e))
    BY <2>1, OwnsIs
  <2>3. e.potential >= 1 => ~(e.potential < 1)
    BY <2>1
  <2>4. Current(e) = Bad \/ Current(e) = Owns(e) \/ (Current(e) = Unowned /\ e.potential < 1)
    BY DEF Current
  <2>5. Older(e) = Bad \/ Older(e) = Owns(e) \/ (Older(e) = Unowned /\ (e.disowned \/ e.potential < 1))
    BY DEF Older
  <2> QED BY <1>1, <2>2, <2>3, <2>4, <2>5
<1>4. ASSUME NEW e \in PlanEntry PROVE Plan(e) = Bad \/ (IsAsked(Plan(e)) /\ AddsIt(Plan(e), e))
  <2>1. e.id \in STRING /\ e.level \in Int
    BY DEF PlanEntry
  <2>2. Plan(e) = Bad \/ Plan(e) = Owns(e)
    BY DEF Plan
  <2> QED BY <2>1, <2>2, OwnsIs
<1> QED BY <1>1, <1>2, <1>3, <1>4

\* An import that does not fail builds its roster from what its entries ask.
LEMMA ReadIs ==
  ASSUME NEW data, NEW source, NEW x,
         \/ source = "krooster" /\ x.entries \in Seq(KroosterEntry)
         \/ /\ source = "ak-planner" /\ x.entries \in Seq(PlanEntry)
            /\ x.shape = "planner" => x.selected \in Seq(STRING),
         Read(data, source, x) # Failed
  PROVE  \E asked :
           /\ Read(data, source, x) = Built(data, asked)
           /\ Len(asked) \in Nat /\ DOMAIN asked = 1 .. Len(asked)
           /\ \A i \in DOMAIN asked : asked[i] = Bad \/ IsAsked(asked[i])
           /\ \A e \in Range(x.entries) : Owned(source, e) =>
                \E i \in DOMAIN asked : asked[i] = Bad \/ AddsIt(asked[i], e)
<1>1. PICK n \in Nat : n = Len(x.entries) /\ DOMAIN x.entries = 1 .. n
  <2>1. ASSUME NEW S, x.entries \in Seq(S) PROVE Len(x.entries) \in Nat /\ DOMAIN x.entries = 1 .. Len(x.entries)
    BY <2>1
  <2> QED BY <2>1
<1>2. CASE source = "krooster"
  <2> DEFINE cur == [i \in DOMAIN x.entries |-> Current(x.entries[i])]
             old == [i \in DOMAIN x.entries |-> Older(x.entries[i])]
  <2>1. x.entries \in Seq(KroosterEntry) /\ \A i \in DOMAIN x.entries : x.entries[i] \in KroosterEntry
    BY <1>2
  <2>2. Read(data, source, x) = Built(data, cur) \/ Read(data, source, x) = Built(data, old)
    <3>1. Read(data, source, x) = Krooster(data, x)
      BY <1>2 DEF Read
    <3> QED BY <3>1 DEF Krooster
  <2>3. /\ Len(cur) \in Nat /\ DOMAIN cur = 1 .. Len(cur)
        /\ Len(old) \in Nat /\ DOMAIN old = 1 .. Len(old)
    BY <1>1
  <2>4. \A i \in DOMAIN x.entries : cur[i] = Current(x.entries[i]) /\ old[i] = Older(x.entries[i])
    OBVIOUS
  <2>5. DOMAIN cur = DOMAIN x.entries /\ DOMAIN old = DOMAIN x.entries
    OBVIOUS
  <2> HIDE DEF cur, old
  <2>6. \A i \in DOMAIN x.entries : /\ cur[i] = Bad \/ IsAsked(cur[i])
                                    /\ old[i] = Bad \/ IsAsked(old[i])
    BY <2>1, <2>4, EntryAsks
  <2>7. ASSUME NEW e \in Range(x.entries), Owned(source, e)
        PROVE  \E i \in DOMAIN x.entries : /\ cur[i] = Bad \/ AddsIt(cur[i], e)
                                           /\ old[i] = Bad \/ AddsIt(old[i], e)
    <3>1. PICK i \in DOMAIN x.entries : e = x.entries[i]
      BY DEF Range
    <3>2. e \in KroosterEntry /\ e.potential >= 1 /\ ~e.disowned
      BY <1>2, <2>1, <2>7, <3>1 DEF Owned
    <3> QED BY <2>4, <3>1, <3>2, EntryAsks
  <2>8. CASE Read(data, source, x) = Built(data, cur)
    BY <2>3, <2>5, <2>6, <2>7, <2>8
  <2>9. CASE Read(data, source, x) = Built(data, old)
    BY <2>3, <2>5, <2>6, <2>7, <2>9
  <2> QED BY <2>2, <2>8, <2>9
<1>3. CASE source = "ak-planner"
  <2> DEFINE plans == [i \in DOMAIN x.entries |-> Plan(x.entries[i])]
             ids == {e.id : e \in Range(x.entries)}
             chosen == Selected(ids, x.selected)
             asked == plans \o chosen
  <2>1. Read(data, source, x) = Planner(data, x)
    BY <1>3 DEF Read
  <2>2. x.shape = "planner" /\ Planner(data, x) = Built(data, asked)
    BY <2>1 DEF Planner
  <2>3. /\ x.entries \in Seq(PlanEntry) /\ \A i \in DOMAIN x.entries : x.entries[i] \in PlanEntry
        /\ x.selected \in Seq(STRING)
    BY <1>3, <2>2
  <2>4. PICK m \in Nat : m = Len(x.selected) /\ DOMAIN x.selected = 1 .. m /\ \A i \in 1 .. m : x.selected[i] \in STRING
    BY <2>3
  <2>5. /\ Len(chosen) = m /\ DOMAIN chosen = 1 .. m
        /\ \A i \in 1 .. m : chosen[i] = Bad \/ IsAsked(chosen[i])
    <3>1. chosen = [i \in 1 .. m |-> chosen[i]]
      BY <2>4 DEF Selected
    <3>2. ASSUME NEW i \in 1 .. m PROVE chosen[i] \in {Bad, Planned, Shown(x.selected[i])}
      BY <2>4 DEF Selected
    <3> HIDE DEF chosen
    <3>3. Len(chosen) = m /\ DOMAIN chosen = 1 .. m
      BY <3>1
    <3> QED BY <3>2, <3>3, <2>4, EntryAsks
  <2>6. /\ Len(plans) = n /\ DOMAIN plans = 1 .. n
        /\ \A i \in 1 .. n : plans[i] = Plan(x.entries[i])
    BY <1>1
  <2>7. /\ Len(asked) \in Nat /\ Len(asked) = n + m /\ DOMAIN asked = 1 .. n + m
        /\ \A i \in 1 .. n : asked[i] = plans[i]
        /\ \A i \in n + 1 .. n + m : asked[i] = chosen[i - n]
    <3>1. \E S : plans \in Seq(S) /\ chosen \in Seq(S)
      <4> DEFINE S == {plans[i] : i \in 1 .. n} \cup {chosen[i] : i \in 1 .. m}
      <4>1. plans = [i \in 1 .. n |-> plans[i]] /\ chosen = [i \in 1 .. m |-> chosen[i]]
        BY <1>1, <2>4 DEF Selected
      <4>2. (\A i \in 1 .. n : plans[i] \in S) /\ (\A i \in 1 .. m : chosen[i] \in S)
        OBVIOUS
      <4> HIDE DEF plans, chosen, S
      <4>5. plans \in [1 .. n -> S] /\ chosen \in [1 .. m -> S]
        BY <4>1, <4>2
      <4>3. plans \in Seq(S)
        BY <4>5
      <4>4. chosen \in Seq(S)
        BY <4>5
      <4> QED BY <4>3, <4>4
    <3>2. PICK S : plans \in Seq(S) /\ chosen \in Seq(S)
      BY <3>1
    <3> HIDE DEF plans, chosen
    <3>3. /\ Len(asked) = Len(plans) + Len(chosen) /\ DOMAIN asked = 1 .. Len(plans) + Len(chosen)
          /\ \A i \in 1 .. Len(plans) : asked[i] = plans[i]
          /\ \A i \in Len(plans) + 1 .. Len(plans) + Len(chosen) : asked[i] = chosen[i - Len(plans)]
      BY <3>2, AppendedIs, Zenon
    <3>4. Len(plans) = n /\ Len(chosen) = m
      BY <2>5, <2>6
    <3>5. n + m \in Nat
      OBVIOUS
    <3> HIDE DEF asked
    <3> QED BY <3>3, <3>4, <3>5
  <2> HIDE DEF plans, chosen, asked
  <2>8. ASSUME NEW i \in DOMAIN asked PROVE asked[i] = Bad \/ IsAsked(asked[i])
    <3>1. CASE i \in 1 .. n
      BY <3>1, <1>1, <2>3, <2>6, <2>7, EntryAsks
    <3>2. CASE i \notin 1 .. n
      <4>1. i - n \in 1 .. m /\ i \in n + 1 .. n + m
        BY <3>2, <2>7
      <4> QED BY <4>1, <2>5, <2>7
    <3> QED BY <3>1, <3>2
  <2>9. ASSUME NEW e \in Range(x.entries) PROVE \E i \in DOMAIN asked : asked[i] = Bad \/ AddsIt(asked[i], e)
    <3>1. PICK i \in 1 .. n : e = x.entries[i]
      BY <1>1 DEF Range
    <3>2. i \in DOMAIN asked /\ asked[i] = Plan(e) /\ e \in PlanEntry
      BY <1>1, <2>3, <2>6, <2>7, <3>1
    <3> QED BY <3>2, EntryAsks
  <2> QED BY <2>1, <2>2, <2>7, <2>8, <2>9
<1> QED BY <1>2, <1>3

\* What an import that does not fail makes of an export.
Accounted(data, source, x, b) ==
  /\ b.entries = Cardinality(DOMAIN b.roster) + b.notOwned + Count(b, "unknown") + Count(b, "duplicate")
  /\ \A op \in DOMAIN b.roster :
       LET o == data.operators[op]  got == b.roster[op] IN
       /\ got.phase \in 0..MaxPhase(o) /\ got.level \in 1..Cap(o, got.phase)
       /\ ToldOf(b, op) = {} => \A e \in Range(x.entries) :
            e.id = op /\ Owned(source, e) => got = [phase |-> e.elite, level |-> e.level]
  /\ DOMAIN b.roster \subseteq DOMAIN data.operators

\* Every entry of an import is accounted for.
LEMMA ReadAccounts ==
  ASSUME NEW data, Promotes(data), NEW source, NEW x,
         \/ source = "krooster" /\ x.entries \in Seq(KroosterEntry)
         \/ /\ source = "ak-planner" /\ x.entries \in Seq(PlanEntry)
            /\ x.shape = "planner" => x.selected \in Seq(STRING),
         Read(data, source, x) # Failed
  PROVE  Accounted(data, source, x, Read(data, source, x))
<1> DEFINE b == Read(data, source, x)
<1>1. PICK asked :
        /\ b = Built(data, asked)
        /\ Len(asked) \in Nat /\ DOMAIN asked = 1 .. Len(asked)
        /\ \A i \in DOMAIN asked : asked[i] = Bad \/ IsAsked(asked[i])
        /\ \A e \in Range(x.entries) : Owned(source, e) =>
             \E i \in DOMAIN asked : asked[i] = Bad \/ AddsIt(asked[i], e)
  BY ReadIs
<1>2. b # Failed
  OBVIOUS
<1> HIDE DEF b
<1>3. BuilderInv(data, b, asked, Len(asked)) /\ \A i \in DOMAIN asked : asked[i] # Bad
  BY <1>1, <1>2, BuiltIs
<1>4. ASSUME NEW op \in DOMAIN b.roster, ToldOf(b, op) = {}, NEW e \in Range(x.entries), e.id = op, Owned(source, e)
      PROVE  b.roster[op] = [phase |-> e.elite, level |-> e.level]
  <2>1. PICK i \in 1 .. Len(asked) : AddsIt(asked[i], e)
    BY <1>1, <1>3, <1>4
  <2>2. asked[i].asks = "add" /\ asked[i].op = op /\ asked[i].elite = e.elite /\ asked[i].level = e.level
    BY <2>1, <1>4 DEF AddsIt
  <2>3. op \in DOMAIN data.operators
    BY <1>3 DEF BuilderInv
  <2>4. b.roster[asked[i].op] = [phase |-> asked[i].elite, level |-> asked[i].level]
    BY <1>3, <1>4, <2>2, <2>3 DEF BuilderInv
  <2> QED BY <2>2, <2>4
<1>5. Accounted(data, source, x, b)
  BY <1>3, <1>4 DEF BuilderInv, Accounted
<1> QED BY <1>5 DEF b

\* The operators of a loaded model have promotions and levels.
LEMMA LoadedPromotes ==
  ASSUME NEW content \in [FileNames -> Commits], Transformed(Raw(content), FALSE) # Refused
  PROVE  Promotes(Transformed(Raw(content), FALSE))
<1> DEFINE raw == Raw(content)
           data == Transformed(raw, FALSE)
           loaded == {op \in DOMAIN raw.building.chars : OperatorLoads(raw, op)}
<1>1. /\ raw.characters = Upstream[content["characters"]].characters
      /\ content["characters"] \in Commits
  BY RawIs, FilesAre
<1>2. \A op \in DOMAIN raw.characters : raw.characters[op].maxLevels \in Seq(Nat \ {0})
  BY <1>1, TablesAreTyped DEF Entries
<1> HIDE DEF raw
<1>3. data.operators = [op \in loaded |-> Operator(raw, op)]
  <2>1. Transformed(raw, FALSE) # Refused /\ FALSE \in BOOLEAN
    BY DEF raw
  <2> QED BY <2>1, TransformedIs, Zenon
<1> HIDE DEF data
<1>4. ASSUME NEW op \in loaded
      PROVE  /\ Operator(raw, op).maxLevels \in Seq(Nat \ {0})
             /\ Len(Operator(raw, op).maxLevels) >= 1
  <2>1. Operator(raw, op).maxLevels = MaxLevels(raw.characters[op])
    BY DEF Operator
  <2>2. op \in DOMAIN raw.characters /\ Len(MaxLevels(raw.characters[op])) \in 1 .. Cardinality(ElitePhases)
    BY <1>4 DEF OperatorLoads
  <2>3. Len(MaxLevels(raw.characters[op])) >= 1
    BY <2>2
  <2>4. MaxLevels(raw.characters[op]) \in Seq(Nat \ {0})
    BY <1>2, <2>2 DEF MaxLevels
  <2> QED BY <2>1, <2>3, <2>4
<1>5. DOMAIN data.operators = loaded /\ \A op \in loaded : data.operators[op] = Operator(raw, op)
  BY <1>3
<1> HIDE DEF loaded
<1>6. Promotes(data)
  BY <1>4, <1>5 DEF Promotes
<1> QED BY <1>6 DEF data, raw

\* An import is what the served model makes of an export, and the server does
\* not change after it.
ImportedInv == imported # Nothing =>
  /\ server.step = "serving"
  /\ \E x \in Exports : imported = [source |-> x[1], export |-> x[2], result |-> Read(server.data, x[1], x[2])]

\* The result of an import is that of the model that is served.
THEOREM Imports == Spec => []ImportedInv
<1>1. Init => ImportedInv
  BY DEF Init, ImportedInv
<1>2. ImportedInv /\ [Next]_vars => ImportedInv'
  <2> SUFFICES ASSUME ImportedInv, [Next]_vars PROVE ImportedInv'
    OBVIOUS
  <2>1. CASE UNCHANGED <<server, imported>>
    BY <2>1 DEF ImportedInv
  <2>2. CASE Start \/ ReadSidecar \/ ReadFile
    BY <2>2 DEF Start, ReadSidecar, ReadFile, ImportedInv
  <2>3. CASE Import
    BY <2>3 DEF Import, ImportedInv, ToolSame
  <2>4. CASE BeginWrite
    BY <2>1, <2>4 DEF BeginWrite
  <2>5. CASE \/ Bump \/ Run \/ Compare \/ Forced \/ CheckPins \/ FetchFails
             \/ EndWrite \/ BeginRecord \/ EndRecord \/ Validate \/ Kill
    BY <2>1, <2>5 DEF Bump, Run, Compare, Forced, CheckPins, FetchFails, EndWrite, BeginRecord, EndRecord,
                      Validate, Kill, ServerSame
  <2>6. CASE UNCHANGED vars
    BY <2>1, <2>6 DEF vars
  <2> QED BY <2>2, <2>3, <2>4, <2>5, <2>6 DEF Next
<1> QED BY <1>1, <1>2, PTL DEF Spec

\* Every owned entry of an export ends in the roster, unknown or replaced by a
\* later one; the roster fits the operators, and changes are told.
THEOREM ImportsAccounted == Spec => []ImportsAreAccounted
<1>1. FilesInv /\ ImportedInv => ImportsAreAccounted
  <2> SUFFICES ASSUME FilesInv, ImportedInv, imported # Nothing, imported.result # Failed
               PROVE  LET b == imported.result  x == imported.export IN
                      /\ imported.source # "roster" =>
                           /\ b.entries = Cardinality(DOMAIN b.roster) + b.notOwned + Count(b, "unknown") + Count(b, "duplicate")
                           /\ \A op \in DOMAIN b.roster :
                                LET o == server.data.operators[op]  got == b.roster[op] IN
                                /\ got.phase \in 0..MaxPhase(o) /\ got.level \in 1..Cap(o, got.phase)
                                /\ ToldOf(b, op) = {} => \A e \in Range(x.entries) :
                                     e.id = op /\ Owned(imported.source, e) => got = [phase |-> e.elite, level |-> e.level]
                      /\ DOMAIN b.roster \subseteq DOMAIN server.data.operators
    BY DEF ImportsAreAccounted
  <2>1. PICK x \in Exports : imported = [source |-> x[1], export |-> x[2], result |-> Read(server.data, x[1], x[2])]
    BY DEF ImportedInv
  <2>2. imported.source = x[1] /\ imported.export = x[2] /\ imported.result = Read(server.data, x[1], x[2])
    BY <2>1
  <2>3. Promotes(server.data)
    <3>1. server.content \in [FileNames -> Commits] /\ server = Serving(server.content, server.sha) /\ server.step = "serving"
      BY DEF FilesInv, TypeOK, Off, ImportedInv
    <3>2. server.data = Transformed(Raw(server.content), FALSE) /\ server.data # Refused
      <4>1. \A c, s : Serving(c, s).data = Transformed(Raw(c), FALSE)
        BY DEF Serving
      <4> QED BY <3>1, <4>1 DEF FilesInv, LoadedInv
    <3> QED BY <3>1, <3>2, LoadedPromotes
  <2>4. CASE x[1] = "roster"
    <3>1. imported.result = Canonical(server.data, x[2])
      BY <2>2, <2>4 DEF Read
    <3>2. /\ imported.result = [Fresh EXCEPT !.roster = x[2].roster]
          /\ DOMAIN x[2].roster \subseteq DOMAIN server.data.operators
      BY <3>1 DEF Canonical
    <3>3. imported.result.roster = x[2].roster
      BY <3>2 DEF Fresh
    <3> QED BY <2>2, <2>4, <3>2, <3>3
  <2>5. CASE x[1] # "roster"
    <3>1. \/ x[1] = "krooster" /\ x[2].entries \in Seq(KroosterEntry)
          \/ /\ x[1] = "ak-planner" /\ x[2].entries \in Seq(PlanEntry)
             /\ x[2].shape = "planner" => x[2].selected \in Seq(STRING)
      BY <2>5, ExportsAreTyped
    <3>2. Read(server.data, x[1], x[2]) # Failed
      BY <2>2
    <3>3. Accounted(server.data, x[1], x[2], Read(server.data, x[1], x[2]))
      BY <2>3, <3>1, <3>2, ReadAccounts, Zenon
    <3>4. Accounted(server.data, imported.source, imported.export, imported.result)
      BY <2>2, <3>3
    <3> QED BY <3>4 DEF Accounted
  <2> QED BY <2>4, <2>5
<1> QED BY <1>1, FilesInvariant, Imports, PTL

-----------------------------------------------------------------------------
(* Lookups: who fetches a name, and what is remembered of it.              *)

Fetches(r) == task[r].step \in Fetching
Asking == {r \in Requests : At(r, "asking")}
HasAnswer(r, k) == At(r, "told") /\ task[r].key = k /\ task[r].answer \in Good

\* One fetch at a time of a name, and only while memory has nothing of it.
OneFetch ==
  /\ \A r, w \in Requests : Fetches(r) /\ Fetches(w) /\ task[r].key = task[w].key => r = w
  /\ \A r \in Requests : Fetches(r) => ~Live(task[r].key)

\* A place is taken by each fetch that asks, and by nothing else.
PlacesAreHeld == places + Cardinality(Asking) = MaxFetches

\* What a fetch brings is Krooster's last answer.
AnswersAreTold ==
  /\ \A r \in Requests : At(r, "told") =>
       /\ task[r].answer \in Good \cup {"error"}
       /\ task[r].answer \in Good =>
            told[task[r].key] # None /\ told[task[r].key].answer = task[r].answer
  /\ \A k \in Keys : told[k] # None => told[k].at <= clock

\* A good answer is in memory for all of its time, or about to be kept, or old.
AnswersAge ==
  \A k \in Keys : told[k] # None =>
    \/ Live(k) /\ told[k].at + KeepFor(told[k].answer) <= kept[k].until
    \/ \E r \in Requests : HasAnswer(r, k)
    \/ told[k].at + KeepFor(told[k].answer) <= clock

KroosterInv == LookupTypeOK /\ OneFetch /\ PlacesAreHeld /\ AnswersAreTold /\ AnswersAge /\ MemoryIsTrue

-----------------------------------------------------------------------------
\* The places: one less while a fetch asks.
LEMMA AskingCounts ==
  ASSUME NEW S \in SUBSET Requests
  PROVE  /\ Cardinality(S) \in Nat
         /\ \A r \in Requests \ S : Cardinality(S \cup {r}) = Cardinality(S) + 1
         /\ \A r \in S : Cardinality(S \ {r}) = Cardinality(S) - 1 /\ Cardinality(S) > 0
<1>1. IsFiniteSet(S)  BY FS_Subset, RequestsAreFinite
<1>2. Cardinality(S) \in Nat  BY <1>1, FS_CardinalityType
<1>3. \A r \in Requests \ S : Cardinality(S \cup {r}) = Cardinality(S) + 1
  BY <1>1, FS_AddElement
<1>4. \A r \in S : IsFiniteSet(S \ {r}) /\ Cardinality(S \ {r}) = Cardinality(S) - 1
  BY <1>1, FS_RemoveElement
<1>5. \A r \in S : Cardinality(S \ {r}) \in Nat  BY <1>4, FS_CardinalityType
<1> QED  BY <1>2, <1>3, <1>4, <1>5

\* How long an answer is kept is a time.
LEMMA KeepForType == \A a \in Good : KeepFor(a) \in Nat \ {0}
BY TimesAreKept DEF Good, KeepFor

\* Nobody looks anything up, and nothing is remembered.
LEMMA InitInv == LookupInit => KroosterInv
<1> SUFFICES ASSUME LookupInit PROVE KroosterInv  OBVIOUS
<1>1. LookupTypeOK  BY SomeFetches, TimeIsBounded DEF LookupInit, LookupTypeOK, NoLookup
<1>2. OneFetch  BY DEF LookupInit, OneFetch, Fetches, Fetching, NoLookup
<1>3. Asking = {}  BY DEF LookupInit, Asking, At, NoLookup
<1>4. PlacesAreHeld  BY <1>3, FS_EmptySet, SomeFetches DEF LookupInit, PlacesAreHeld
<1>5. AnswersAreTold /\ AnswersAge /\ MemoryIsTrue
  BY DEF LookupInit, AnswersAreTold, AnswersAge, MemoryIsTrue, At, NoLookup, Live
<1> QED  BY <1>1, <1>2, <1>4, <1>5 DEF KroosterInv

-----------------------------------------------------------------------------
(* The steps.  Most change one task, and neither memory nor the answers.   *)

\* A task that is not told anything, does not ask and begins no fetch (except
\* where there is none and memory has nothing) disturbs nobody.
LEMMA OneTask ==
  ASSUME KroosterInv, NEW r \in Requests, UNCHANGED <<clock, kept, told>>,
         task' \in [Requests -> {NoLookup} \cup Lookups],
         \A w \in Requests \ {r} : task'[w] = task[w],
         ~At(r, "told"), task'[r].step # "told",
         Fetches(r)' => /\ ~Live(task'[r].key)
                        /\ \/ Fetchers(task'[r].key) = {}
                           \/ Fetches(r) /\ task'[r].key = task[r].key
  PROVE  OneFetch' /\ AnswersAreTold' /\ AnswersAge' /\ MemoryIsTrue'
<1>1. OneFetch'
  BY DEF KroosterInv, OneFetch, Fetches, Fetchers, Live
<1>2. AnswersAreTold'
  BY DEF KroosterInv, AnswersAreTold, At
<1>3. \A w \in Requests, k \in Keys : HasAnswer(w, k)' <=> HasAnswer(w, k)
  BY DEF HasAnswer, At
<1>4. AnswersAge'  BY <1>3 DEF KroosterInv, AnswersAge, Live
<1>5. MemoryIsTrue'  BY DEF KroosterInv, MemoryIsTrue, Live
<1> QED  BY <1>1, <1>2, <1>4, <1>5

\* A request names a user.
LEMMA AskInv == ASSUME KroosterInv, NEW r \in Requests, Ask(r) PROVE KroosterInv'
<1> USE DEF Ask, At
<1>1. PICK n \in Names : task' = [task EXCEPT ![r] =
          IF Fold[n] = NoName THEN NoLookup
          ELSE [step |-> "lookup", key |-> Fold[n], answer |-> "none", dropped |-> FALSE]]
  OBVIOUS
<1>2. task'[r].step \in {"idle", "lookup"} /\ task'[r] \in {NoLookup} \cup Lookups
  BY <1>1 DEF KroosterInv, LookupTypeOK, Lookups, Keys, NoLookup
<1>3. LookupTypeOK'  BY <1>1, <1>2 DEF KroosterInv, LookupTypeOK
<1>4. Asking' = Asking  BY <1>1, <1>2 DEF KroosterInv, LookupTypeOK, Asking
<1>5. PlacesAreHeld'  BY <1>4 DEF KroosterInv, PlacesAreHeld
<1>6. OneFetch' /\ AnswersAreTold' /\ AnswersAge' /\ MemoryIsTrue'
  BY <1>1, <1>2, <1>3, OneTask DEF LookupTypeOK, KroosterInv, Fetches, Fetching
<1> QED  BY <1>3, <1>5, <1>6 DEF KroosterInv

\* What is known of a task that is not idle.
LEMMA Busy ==
  ASSUME LookupTypeOK, NEW r \in Requests, ~At(r, "idle")
  PROVE  task[r] \in Lookups /\ task[r].key \in Keys
BY DEF LookupTypeOK, At, NoLookup, Lookups

\* It is answered from memory, waits, or is to fetch.
LEMMA LookUpInv == ASSUME KroosterInv, NEW r \in Requests, LookUp(r) PROVE KroosterInv'
<1> DEFINE k == task[r].key
<1>1. At(r, "lookup") /\ task[r] \in Lookups  BY Busy DEF LookUp, At, KroosterInv
<1>2. \/ task' = [task EXCEPT ![r] = NoLookup]
      \/ task' = [task EXCEPT ![r].step = "waiting"]
      \/ /\ ~Live(k) /\ Fetchers(k) = {}
         /\ task' = [task EXCEPT ![r].step = "queued"]
  BY DEF LookUp
<1>3. /\ task'[r] \in {NoLookup} \cup Lookups
      /\ task'[r].step \in {"idle", "waiting", "queued"}
      /\ task'[r].step = "queued" => task'[r].key = k /\ ~Live(k) /\ Fetchers(k) = {}
  BY <1>1, <1>2 DEF KroosterInv, LookupTypeOK, NoLookup, Lookups, Fetching
<1>4. \A w \in Requests \ {r} : task'[w] = task[w]  BY <1>2 DEF KroosterInv, LookupTypeOK
<1>5. LookupTypeOK'  BY <1>2, <1>3 DEF KroosterInv, LookupTypeOK, LookUp
<1>6. Asking' = Asking  BY <1>1, <1>3, <1>4 DEF Asking, At
<1>7. PlacesAreHeld'  BY <1>6 DEF KroosterInv, PlacesAreHeld, LookUp
<1>8. OneFetch' /\ AnswersAreTold' /\ AnswersAge' /\ MemoryIsTrue'
  BY <1>1, <1>3, <1>4, <1>5, OneTask DEF LookupTypeOK, LookUp, At, Fetches, Fetching
<1> QED  BY <1>5, <1>7, <1>8 DEF KroosterInv

\* A fetch takes a place.
LEMMA TakePlaceInv == ASSUME KroosterInv, NEW r \in Requests, TakePlace(r) PROVE KroosterInv'
<1>1. At(r, "queued") /\ task[r] \in Lookups  BY Busy DEF TakePlace, At, KroosterInv
<1>2. /\ task'[r] \in Lookups /\ task'[r].step = "asking" /\ task'[r].key = task[r].key
      /\ \A w \in Requests \ {r} : task'[w] = task[w]
  BY <1>1 DEF KroosterInv, LookupTypeOK, TakePlace, Lookups, Fetching
<1>3. LookupTypeOK'  BY <1>2, SomeFetches DEF KroosterInv, LookupTypeOK, TakePlace
<1>4. Asking' = Asking \cup {r} /\ r \notin Asking /\ Asking \subseteq Requests
  BY <1>1, <1>2 DEF Asking, At
<1>5. Cardinality(Asking') = Cardinality(Asking) + 1 /\ Cardinality(Asking) \in Nat
  BY <1>4, AskingCounts
<1>6. PlacesAreHeld'  BY <1>5, SomeFetches DEF KroosterInv, LookupTypeOK, PlacesAreHeld, TakePlace
<1>7. OneFetch' /\ AnswersAreTold' /\ AnswersAge' /\ MemoryIsTrue'
  <2>1. Fetches(r) /\ ~Live(task[r].key)
    BY <1>1 DEF KroosterInv, OneFetch, Fetches, Fetching, At
  <2> QED  BY <1>1, <1>2, <1>3, <2>1, OneTask DEF LookupTypeOK, TakePlace, At
<1> QED  BY <1>3, <1>6, <1>7 DEF KroosterInv

\* Krooster answers: for the name of this fetch only.
LEMMA ToldInv == ASSUME KroosterInv, NEW r \in Requests, Answered(r) PROVE KroosterInv'
<1> DEFINE k == task[r].key
<1>1. /\ At(r, "asking") /\ task[r] \in Lookups /\ k \in Keys
      /\ UNCHANGED <<clock, kept>> /\ places' = places + 1
  BY Busy DEF Answered, At, KroosterInv
<1>2. PICK a \in Good \cup {"error"} :
        /\ task' = [task EXCEPT ![r] = [@ EXCEPT !.step = "told", !.answer = a]]
        /\ told' = IF a = "error" THEN told
                   ELSE [told EXCEPT ![k] = [answer |-> a, at |-> clock]]
  BY DEF Answered
<1>3. /\ task'[r] \in Lookups /\ task'[r].step = "told" /\ task'[r].key = k
      /\ task'[r].answer = a
      /\ \A w \in Requests \ {r} : task'[w] = task[w]
  BY <1>1, <1>2 DEF KroosterInv, LookupTypeOK, Lookups, Fetching
<1>4. Asking' = Asking \ {r} /\ r \in Asking /\ Asking \subseteq Requests
  BY <1>1, <1>3 DEF Asking, At
<1>5. /\ Cardinality(Asking') = Cardinality(Asking) - 1
      /\ Cardinality(Asking) \in Nat /\ Cardinality(Asking) > 0
  BY <1>4, AskingCounts
<1>6. PlacesAreHeld' /\ places' \in 0 .. MaxFetches
  BY <1>1, <1>5, SomeFetches DEF KroosterInv, LookupTypeOK, PlacesAreHeld
<1>7. LookupTypeOK'  BY <1>1, <1>2, <1>3, <1>6 DEF KroosterInv, LookupTypeOK, Good
<1>8. Fetches(r) /\ ~Live(k) /\ \A j \in Keys : Live(j)' <=> Live(j)
  <2>1. Fetches(r)  BY <1>1 DEF Fetches, Fetching, At
  <2>2. ~Live(k)  BY <2>1 DEF KroosterInv, OneFetch
  <2> QED  BY <2>1, <2>2, <1>1 DEF Live
<1>9. OneFetch'  BY <1>1, <1>3, <1>8 DEF KroosterInv, OneFetch, Fetches, Live
<1>10. \A w \in Requests \ {r} : Fetches(w) => task[w].key # k
  BY <1>8 DEF KroosterInv, OneFetch
<1>11. /\ \A j \in Keys \ {k} : told'[j] = told[j]
       /\ a # "error" => told'[k] = [answer |-> a, at |-> clock]
       /\ a = "error" => told' = told
  BY <1>1, <1>2 DEF KroosterInv, LookupTypeOK
<1>12. [answer |-> a, at |-> clock] # None  BY DEF None
<1>13. AnswersAreTold'
  <2>1. ASSUME NEW w \in Requests, At(w, "told")'
        PROVE  /\ task'[w].answer \in Good \cup {"error"}
               /\ task'[w].answer \in Good =>
                    told'[task'[w].key] # None /\ told'[task'[w].key].answer = task'[w].answer
    <3>1. CASE w = r  BY <3>1, <1>3, <1>11, <1>12 DEF Good
    <3>2. CASE w # r
      <4>1. At(w, "told") /\ task'[w] = task[w]  BY <3>2, <2>1, <1>3 DEF At
      <4>2. task[w].key \in Keys \ {k}
        BY <3>2, <4>1, <1>10, Busy DEF Fetches, Fetching, At, KroosterInv
      <4> QED  BY <4>1, <4>2, <1>11 DEF KroosterInv, AnswersAreTold
    <3> QED  BY <3>1, <3>2
  <2>2. \A j \in Keys : told'[j] # None => told'[j].at <= clock'
    BY <1>1, <1>11 DEF KroosterInv, LookupTypeOK, AnswersAreTold
  <2> QED  BY <2>1, <2>2 DEF AnswersAreTold
<1>14. AnswersAge'
  <2> SUFFICES ASSUME NEW j \in Keys, told'[j] # None
               PROVE  \/ Live(j)' /\ told'[j].at + KeepFor(told'[j].answer) <= kept'[j].until
                      \/ \E w \in Requests : HasAnswer(w, j)'
                      \/ told'[j].at + KeepFor(told'[j].answer) <= clock'
    BY DEF AnswersAge, KeepFor
  <2>1. CASE j = k /\ a # "error"
    <3>1. HasAnswer(r, j)'  BY <2>1, <1>3 DEF HasAnswer, At
    <3> QED  BY <3>1
  <2>2. CASE j # k \/ a = "error"
    <3>1. told'[j] = told[j]  BY <2>2, <1>11
    <3>2. ASSUME NEW w \in Requests, HasAnswer(w, j) PROVE HasAnswer(w, j)'
      <4>1. w # r  BY <3>2, <1>1 DEF HasAnswer, At
      <4> QED  BY <4>1, <3>2, <1>3 DEF HasAnswer, At
    <3> QED  BY <3>1, <3>2, <1>1 DEF KroosterInv, AnswersAge, Live
  <2> QED  BY <2>1, <2>2
<1>15. MemoryIsTrue'
  BY <1>1, <1>8, <1>11 DEF KroosterInv, MemoryIsTrue, Live, KeepFor
<1> QED  BY <1>6, <1>7, <1>9, <1>13, <1>14, <1>15 DEF KroosterInv

\* The answer is kept if it is good, and told to all who wait.
LEMMA FinishInv == ASSUME KroosterInv, NEW r \in Requests, Finish(r) PROVE KroosterInv'
<1> DEFINE k == task[r].key  a == task[r].answer
<1>1. /\ At(r, "told") /\ task[r] \in Lookups /\ k \in Keys
      /\ UNCHANGED <<clock, places, told>>
  BY Busy DEF Finish, At, KroosterInv
<1>2. \A w \in Requests :
        /\ task'[w] = task[w] \/ task'[w] = NoLookup
        /\ task'[w] # task[w] => w = r \/ At(w, "waiting")
  BY DEF Finish, WithAnswer
<1>3. task'[r] = NoLookup  BY DEF Finish, WithAnswer
<1>4. NoLookup.step = "idle"  BY DEF NoLookup
<1>5. a \in Good => told[k] # None /\ told[k].answer = a /\ told[k].at <= clock
  BY <1>1 DEF KroosterInv, AnswersAreTold
<1>6. /\ \A j \in Keys \ {k} : kept'[j] = kept[j]
      /\ a \in Good => kept'[k] = [answer |-> a, until |-> clock + KeepFor(a)]
      /\ a \notin Good => kept' = kept
  BY <1>1 DEF KroosterInv, LookupTypeOK, Finish, Kept
<1>7. a \in Good => clock + KeepFor(a) \in Nat /\ KeepFor(a) \in Nat \ {0}
  BY KeepForType, TimeIsBounded DEF KroosterInv, LookupTypeOK
<1>8. LookupTypeOK'
  <2>1. task' \in [Requests -> {NoLookup} \cup Lookups]
    BY <1>2 DEF Finish, KroosterInv, LookupTypeOK
  <2>2. kept' \in [Keys -> {None} \cup [answer : Good, until : Nat]]
    BY <1>1, <1>6, <1>7 DEF Finish, Kept, KroosterInv, LookupTypeOK
  <2> QED  BY <1>1, <2>1, <2>2 DEF KroosterInv, LookupTypeOK
<1>9. Asking' = Asking  BY <1>1, <1>2, <1>4 DEF Asking, At
<1>10. PlacesAreHeld'  BY <1>1, <1>9 DEF KroosterInv, PlacesAreHeld
<1>11. Fetches(r)  BY <1>1 DEF Fetches, Fetching, At
<1>12. \A w \in Requests : Fetches(w)' => w # r /\ Fetches(w) /\ task'[w] = task[w]
  BY <1>2, <1>3, <1>4 DEF Fetches, Fetching
<1>13. \A w \in Requests : Fetches(w)' => task[w].key \in Keys \ {k}
  BY <1>11, <1>12, Busy DEF KroosterInv, OneFetch, Fetches, Fetching, At
<1>14. OneFetch'
  BY <1>1, <1>6, <1>12, <1>13 DEF KroosterInv, OneFetch, Live
<1>15. AnswersAreTold'
  BY <1>1, <1>2, <1>4 DEF KroosterInv, AnswersAreTold, At
<1>16. AnswersAge'
  <2> SUFFICES ASSUME NEW j \in Keys, told[j] # None
               PROVE  \/ Live(j)' /\ told[j].at + KeepFor(told[j].answer) <= kept'[j].until
                      \/ \E w \in Requests : HasAnswer(w, j)'
                      \/ told[j].at + KeepFor(told[j].answer) <= clock
    BY <1>1 DEF AnswersAge, KeepFor
  <2>1. CASE j = k /\ a \in Good
    <3>1. kept'[j] # None  BY <2>1, <1>6 DEF None
    <3> QED  BY <2>1, <3>1, <1>1, <1>5, <1>6, <1>7 DEF KroosterInv, LookupTypeOK, Live
  <2>2. CASE j # k \/ a \notin Good
    <3>1. kept'[j] = kept[j]  BY <2>2, <1>6
    <3>2. ASSUME NEW w \in Requests, HasAnswer(w, j) PROVE HasAnswer(w, j)'
      <4>1. w # r  BY <3>2, <2>2 DEF HasAnswer
      <4>2. task'[w] = task[w]  BY <4>1, <3>2, <1>2 DEF HasAnswer, At
      <4> QED  BY <4>2, <3>2 DEF HasAnswer, At
    <3> QED  BY <3>1, <3>2, <1>1 DEF KroosterInv, AnswersAge, Live
  <2> QED  BY <2>1, <2>2
<1>17. MemoryIsTrue'
  <2> SUFFICES ASSUME NEW j \in Keys, Live(j)'
               PROVE  /\ told[j] # None /\ told[j].answer = kept'[j].answer
                      /\ kept'[j].until <= clock + KeepFor(told[j].answer)
    BY <1>1 DEF MemoryIsTrue, KeepFor
  <2>1. CASE j = k /\ a \in Good
    BY <2>1, <1>5, <1>6, <1>7 DEF KroosterInv, LookupTypeOK
  <2>2. CASE j # k \/ a \notin Good
    BY <2>2, <1>1, <1>6 DEF KroosterInv, MemoryIsTrue, Live
  <2> QED  BY <2>1, <2>2
<1> QED  BY <1>8, <1>10, <1>14, <1>15, <1>16, <1>17 DEF KroosterInv

\* The request goes away; its task stays.
LEMMA DropInv == ASSUME KroosterInv, NEW r \in Requests, Drop(r) PROVE KroosterInv'
<1>1. task[r] \in Lookups  BY Busy DEF Drop, KroosterInv
<1>2. \A w \in Requests : /\ task'[w].step = task[w].step
                          /\ task[w].step # "idle" => /\ task'[w].key = task[w].key
                                                      /\ task'[w].answer = task[w].answer
  BY <1>1 DEF Drop, Left, KroosterInv, LookupTypeOK, Lookups
<1>3. task' \in [Requests -> {NoLookup} \cup Lookups]
  BY <1>1 DEF Drop, Left, KroosterInv, LookupTypeOK, Lookups
<1>4. UNCHANGED <<clock, kept, places, told>>  BY DEF Drop
<1>5. LookupTypeOK' /\ Asking' = Asking  BY <1>2, <1>3, <1>4 DEF KroosterInv, LookupTypeOK, Asking, At
<1>6. \A w \in Requests : (Fetches(w)' <=> Fetches(w)) /\ (Fetches(w) => task'[w].key = task[w].key)
  BY <1>2 DEF Fetches, Fetching
<1>7. \A w \in Requests, j \in Keys : HasAnswer(w, j)' <=> HasAnswer(w, j)
  BY <1>2 DEF HasAnswer, At
<1>8. OneFetch' /\ PlacesAreHeld' /\ MemoryIsTrue'
  BY <1>4, <1>5, <1>6 DEF KroosterInv, OneFetch, PlacesAreHeld, MemoryIsTrue, Live
<1>9. AnswersAreTold'  BY <1>2, <1>4 DEF KroosterInv, AnswersAreTold, At
<1>10. AnswersAge'  BY <1>4, <1>7 DEF KroosterInv, AnswersAge, Live
<1> QED  BY <1>5, <1>8, <1>9, <1>10 DEF KroosterInv

\* What is evicted is forgotten, fetches apart.
LEMMA EvictInv == ASSUME KroosterInv, NEW k \in Keys, Evict(k) PROVE KroosterInv'
<1>1. /\ Live(k) /\ UNCHANGED <<clock, task, places>>
      /\ kept' = [kept EXCEPT ![k] = None] /\ told' = [told EXCEPT ![k] = None]
  BY DEF Evict
<1>2. \A j \in Keys : /\ kept'[j] = IF j = k THEN None ELSE kept[j]
                      /\ told'[j] = IF j = k THEN None ELSE told[j]
  BY <1>1 DEF KroosterInv, LookupTypeOK
<1>3. LookupTypeOK'  BY <1>1 DEF KroosterInv, LookupTypeOK
<1>4. \A w \in Requests : Fetches(w) => task[w].key \in Keys \ {k}
  BY <1>1, Busy DEF KroosterInv, OneFetch, Fetches, Fetching, At
<1>5. OneFetch' /\ PlacesAreHeld'
  BY <1>1, <1>2, <1>4 DEF KroosterInv, OneFetch, Fetches, PlacesAreHeld, Asking, At, Live
<1>6. AnswersAreTold'
  BY <1>1, <1>2, <1>4 DEF KroosterInv, AnswersAreTold, At, Fetches, Fetching
<1>7. AnswersAge'
  BY <1>1, <1>2 DEF KroosterInv, AnswersAge, HasAnswer, At, Live
<1>8. MemoryIsTrue'  BY <1>1, <1>2 DEF KroosterInv, MemoryIsTrue, Live
<1> QED  BY <1>3, <1>5, <1>6, <1>7, <1>8 DEF KroosterInv

\* Time passes: what was kept for long enough is old.
LEMMA TickInv == ASSUME KroosterInv, Tick PROVE KroosterInv'
<1>1. clock' = clock + 1 /\ clock \in Nat /\ UNCHANGED <<task, kept, places, told>>
  BY TimeIsBounded DEF Tick, KroosterInv, LookupTypeOK
<1>2. LookupTypeOK'  BY <1>1, TimeIsBounded DEF Tick, KroosterInv, LookupTypeOK
<1>3. \A k \in Keys : /\ kept[k] # None => kept[k].until \in Nat
                      /\ told[k] # None => told[k].at \in Nat /\ KeepFor(told[k].answer) \in Nat
  BY KeepForType, TimeIsBounded DEF KroosterInv, LookupTypeOK
<1>4. \A k \in Keys : Live(k)' => Live(k)  BY <1>1, <1>3 DEF Live
<1>5. \A w \in Requests : Fetches(w) => task[w].key \in Keys
  BY Busy DEF KroosterInv, Fetches, Fetching, At
<1>6. OneFetch' /\ PlacesAreHeld'
  BY <1>1, <1>4, <1>5 DEF KroosterInv, OneFetch, Fetches, PlacesAreHeld, Asking, At
<1>7. AnswersAreTold'
  BY <1>1, <1>3 DEF KroosterInv, AnswersAreTold, At
<1>8. AnswersAge'
  BY <1>1, <1>3 DEF KroosterInv, AnswersAge, HasAnswer, At, Live, KeepFor
<1>9. MemoryIsTrue'
  <2> SUFFICES ASSUME NEW k \in Keys, Live(k)'
               PROVE  /\ told[k] # None /\ told[k].answer = kept[k].answer
                      /\ kept[k].until <= clock + 1 + KeepFor(told[k].answer)
    BY <1>1 DEF MemoryIsTrue, KeepFor
  <2>1. /\ told[k] # None /\ told[k].answer = kept[k].answer
        /\ kept[k].until <= clock + KeepFor(told[k].answer)
    BY <1>4 DEF KroosterInv, MemoryIsTrue
  <2>2. kept[k].until \in Nat /\ KeepFor(told[k].answer) \in Nat
    BY <1>3, <1>4, <2>1 DEF Live
  <2> QED  BY <2>1, <2>2, <1>1
<1> QED  BY <1>2, <1>6, <1>7, <1>8, <1>9 DEF KroosterInv

\* Every step keeps the invariant.
LEMMA StepInv == KroosterInv /\ [LookupNext]_lookups => KroosterInv'
<1> SUFFICES ASSUME KroosterInv, [LookupNext]_lookups PROVE KroosterInv'  OBVIOUS
<1>1. CASE UNCHANGED lookups
  BY <1>1 DEF lookups, KroosterInv, LookupTypeOK, OneFetch, Fetches, PlacesAreHeld, Asking, AnswersAreTold,
              AnswersAge, HasAnswer, MemoryIsTrue, At, Live
<1>2. CASE \E r \in Requests : \/ Ask(r) \/ LookUp(r) \/ TakePlace(r)
                               \/ Answered(r) \/ Finish(r) \/ Drop(r)
  BY <1>2, AskInv, LookUpInv, TakePlaceInv, ToldInv, FinishInv, DropInv
<1>3. CASE \E k \in Keys : Evict(k)  BY <1>3, EvictInv
<1>4. CASE Tick  BY <1>4, TickInv
<1> QED  BY <1>1, <1>2, <1>3, <1>4 DEF LookupNext

\* One fetch of a name at a time, while memory has nothing of it; every good answer
\* is in memory, about to be kept, or old.
THEOREM KroosterInvariant == LookupSpec => []KroosterInv
BY InitInv, StepInv, PTL DEF LookupSpec

\* Every variable of the lookups has its type; no more places are taken than
\* there are.
THEOREM LookupTypes == LookupSpec => [](LookupTypeOK /\ PlacesAreHeld)
<1>1. KroosterInv => LookupTypeOK /\ PlacesAreHeld  BY DEF KroosterInv
<1> QED  BY <1>1, KroosterInvariant, PTL

\* What is served from memory is Krooster's last good answer, for no longer
\* than answers of its kind are kept.
THEOREM MemoryTrue == LookupSpec => []MemoryIsTrue
<1>1. KroosterInv => MemoryIsTrue  BY DEF KroosterInv
<1> QED  BY <1>1, KroosterInvariant, PTL

\* A fetch starts only when nobody fetches that name and no good answer is
\* recent enough, whatever is dropped, fails, is evicted or overlaps.
THEOREM Spared == LookupSpec => KroosterIsSpared
<1> DEFINE Step == \A r \in Requests : At(r, "lookup") /\ task'[r].step = "queued" =>
         LET k == task[r].key IN
         /\ \A w \in Requests \ {r} : task[w].step \in Fetching => task[w].key # k
         /\ told[k] = None \/ clock - told[k].at >= KeepFor(told[k].answer)
<1>1. KroosterInv /\ [LookupNext]_lookups => [Step]_lookups
  <2> SUFFICES ASSUME KroosterInv, LookupNext, NEW r \in Requests, At(r, "lookup"), task'[r].step = "queued"
               PROVE  LET k == task[r].key IN
                      /\ \A w \in Requests \ {r} : task[w].step \in Fetching => task[w].key # k
                      /\ told[k] = None \/ clock - told[k].at >= KeepFor(told[k].answer)
    OBVIOUS
  <2> DEFINE k == task[r].key
  <2>1. k \in Keys /\ task[r] \in Lookups /\ task[r].step = "lookup"
    BY Busy DEF KroosterInv, At
  <2>2. LookUp(r)
    <3>1. task'[r].step # task[r].step  BY <2>1
    <3>2. ~Tick /\ \A j \in Keys : ~Evict(j)  BY <3>1 DEF Tick, Evict
    <3>3. \A w \in Requests : ~Ask(w)
      BY <2>1, <3>1 DEF Ask, At, KroosterInv, LookupTypeOK
    <3>4. \A w \in Requests : ~TakePlace(w)
      BY <2>1, <3>1 DEF TakePlace, At, KroosterInv, LookupTypeOK
    <3>5. \A w \in Requests : ~Answered(w)
      BY <2>1, <3>1 DEF Answered, At, KroosterInv, LookupTypeOK
    <3>6. \A w \in Requests : ~Finish(w)
      BY <2>1, <3>1 DEF Finish, WithAnswer, At, NoLookup
    <3>7. \A w \in Requests : ~Drop(w)
      BY <2>1, <3>1 DEF Drop, Left, KroosterInv, LookupTypeOK, Lookups
    <3>8. \A w \in Requests \ {r} : ~LookUp(w)
      BY <2>1, <3>1 DEF LookUp, KroosterInv, LookupTypeOK
    <3> QED  BY <3>2, <3>3, <3>4, <3>5, <3>6, <3>7, <3>8 DEF LookupNext
  <2>3. ~Live(k) /\ Fetchers(k) = {}
    BY <2>1, <2>2 DEF LookUp, KroosterInv, LookupTypeOK, NoLookup, Lookups
  <2>4. \A w \in Requests : task[w].step \in Fetching => task[w].key # k
    BY <2>3 DEF Fetchers
  <2>5. \A w \in Requests : ~HasAnswer(w, k)
    BY <2>4 DEF HasAnswer, At, Fetching
  <2>6. told[k] # None => /\ told[k].at + KeepFor(told[k].answer) <= clock
                          /\ told[k].at \in Nat /\ clock \in Nat
                          /\ KeepFor(told[k].answer) \in Nat
    BY <2>1, <2>3, <2>5, KeepForType, TimeIsBounded DEF KroosterInv, LookupTypeOK, AnswersAge
  <2> QED  BY <2>4, <2>6
<1> QED  BY <1>1, KroosterInvariant, PTL DEF LookupSpec, KroosterIsSpared
=============================================================================
