----------------------------- MODULE GameFiles ------------------------------
(***************************************************************************)
(* The pinned game files on disk: the manifest's pin, the tool that fetches *)
(* and checks the files (ak-data-sync/src/main.rs), and the program that   *)
(* loads and serves them (ak-data/src/loader.rs, ak-api/src/main.rs), with *)
(* the rosters it then imports.  One source of the manifest.               *)
(*                                                                         *)
(* The tool runs at most once at a time; the server starts whenever it     *)
(* likes.  Files are written one after the other, then the sidecar that    *)
(* records the commit and the digests; the tool may be killed anywhere, and *)
(* a file is torn from the moment its writing begins until it ends.        *)
(***************************************************************************)
EXTENDS RosterImport

CONSTANTS
    Commits,        \* upstream commits
    PinSets,        \* the sets of commits pins are chosen from
    Upstream,       \* commit |-> the tables of that commit
    ImportsOver,    \* those of the choices over which imports are explored
    Exports,        \* pairs of a source and an export, for imports
    MaxRuns,        \* bound of the exploration: runs of the tool
    MaxStarts       \* bound of the exploration: starts of the server

VARIABLES
    choice,         \* the commits pins are chosen from, in this behaviour
    pin,            \* the manifest's commit
    disk,           \* file |-> its content: of a commit, torn or absent
    sidecar,        \* .sync.json
    tool,           \* the run of the tool, and whether the last one passed
    server,         \* the server: loading, serving or not up
    settled,        \* history: nothing was written since the sidecar was
    sound,          \* history: the server has seen a settled disk only
    runs, starts,   \* bounded
    imported        \* what the server made of an export

vars == <<choice, pin, disk, sidecar, tool, server, settled, sound, runs, starts, imported>>

Files == <<"building", "characters", "teams">>
FileNames == Range(Files)
Torn == "torn"
Absent == "absent"
Idle == [step |-> "off", passed |-> FALSE]
Off == [step |-> "off"]
Nothing == [none |-> TRUE]

ASSUME BoundsAreNumbers == MaxRuns \in Nat /\ MaxStarts \in Nat
ASSUME CommitsAreOpaque == {Torn, Absent} \cap Commits = {}
ASSUME PinsAreCommits == \A s \in PinSets : s \subseteq Commits

\* The types the fields are read with; what has others is read as torn.
TierData == [buff : STRING, phase : Nat, level : Nat]
ASSUME TablesAreTyped == \A c \in Commits :
    /\ \A char \in Entries(Upstream[c].building.chars) : char.slots \in Seq(Seq(TierData))
    /\ \A character \in Entries(Upstream[c].characters) : character.maxLevels \in Seq(Nat \ {0})

KroosterEntry == [form : Forms, id : STRING, disowned : BOOLEAN, potential : Int, elite : Int, level : Int]
PlanEntry == [id : STRING, elite : Int, level : Int]
ASSUME ExportsAreTyped == \A x \in Exports :
    \/ x[1] = "krooster" /\ x[2].entries \in Seq(KroosterEntry)
    \/ /\ x[1] = "ak-planner" /\ x[2].entries \in Seq(PlanEntry)
       /\ x[2].shape = "planner" => x[2].selected \in Seq(STRING)
    \/ x[1] = "roster"
----------------------------------------------------------------------------
(* What is read from disk.  A digest stands for the content it was taken   *)
(* of; a torn file does not parse.                                         *)

\* The digests are not compared.
Matches_BySha(commit) == sidecar \in Commits /\ sidecar = commit

\* on_disk_matches and check_pins: the sidecar is of the commit and every
\* file has the digest it records, that of the bytes fetched.
Matches(commit) == sidecar \in Commits /\ sidecar = commit /\ \A f \in FileNames : disk[f] = sidecar

\* read_raw_bundle
Readable(content) == \A f \in FileNames : content[f] \in Commits
Raw(content) == [f \in FileNames |-> Upstream[content[f]][f]]

\* validate: the shape of the raw files, then a strict load.
Validates(content) ==
    /\ Readable(content) /\ SchemaPasses(Raw(content))
    /\ Deserializes(Raw(content)) /\ Transformed(Raw(content), TRUE) # Refused
----------------------------------------------------------------------------
(* The tool.                                                               *)

ServerSame == UNCHANGED <<choice, server, sound, starts, imported>>
DiskSame == UNCHANGED <<disk, sidecar, settled>>
Passes == tool' = [step |-> "off", passed |-> TRUE, commit |-> tool.commit]
Fails == tool' = Idle
Goes(step) == tool' = [tool EXCEPT !.step = step]

\* Bumping a pin: the manifest is edited.
Bump == \E c \in choice \ {pin} :
    /\ runs < MaxRuns /\ imported = Nothing
    /\ pin' = c
    /\ UNCHANGED <<tool, runs>> /\ DiskSame /\ ServerSame

\* main: the manifest is read once; sync or check is asked for.
Run == \E command \in {"sync", "force", "check"} :
    /\ tool.step = "off" /\ runs < MaxRuns /\ imported = Nothing
    /\ runs' = runs + 1
    /\ tool' = [step |-> command, commit |-> pin, at |-> 1]
    /\ UNCHANGED pin /\ DiskSame /\ ServerSame

\* sync begins: a sidecar that does not parse fails it, unless it is forced.
Compare ==
    /\ tool.step = "sync"
    /\ IF sidecar = Torn THEN Fails
       ELSE IF Matches(tool.commit) THEN Goes("validate")
       ELSE Goes("fetch")
    /\ UNCHANGED <<pin, runs>> /\ DiskSame /\ ServerSame
Forced == tool.step = "force" /\ Goes("fetch") /\ UNCHANGED <<pin, runs>> /\ DiskSame /\ ServerSame

\* check_pins
CheckPins ==
    /\ tool.step = "check"
    /\ IF Matches(tool.commit) THEN Goes("validate") ELSE Fails
    /\ UNCHANGED <<pin, runs>> /\ DiskSame /\ ServerSame

\* A fetch of a file ends in an error, or its writing begins.
FetchFails == tool.step = "fetch" /\ Fails /\ UNCHANGED <<pin, runs>> /\ DiskSame /\ ServerSame
BeginWrite ==
    /\ tool.step = "fetch" /\ tool.at <= Len(Files)
    /\ disk' = [disk EXCEPT ![Files[tool.at]] = Torn]
    /\ Goes("write") /\ settled' = FALSE
    /\ sound' = (sound /\ server.step = "serving")
    /\ UNCHANGED <<choice, pin, sidecar, runs, server, starts, imported>>
EndWrite ==
    /\ tool.step = "write"
    /\ disk' = [disk EXCEPT ![Files[tool.at]] = tool.commit]
    /\ tool' = [tool EXCEPT !.at = @ + 1, !.step = IF tool.at = Len(Files) THEN "record" ELSE "fetch"]
    /\ UNCHANGED <<pin, sidecar, settled, runs>> /\ ServerSame

\* The sidecar, last.
BeginRecord ==
    /\ tool.step = "record" /\ sidecar' = Torn /\ Goes("recording")
    /\ UNCHANGED <<pin, disk, settled, runs>> /\ ServerSame
EndRecord ==
    /\ tool.step = "recording" /\ sidecar' = tool.commit /\ settled' = TRUE /\ Goes("validate")
    /\ UNCHANGED <<pin, disk, runs>> /\ ServerSame

Validate ==
    /\ tool.step = "validate"
    /\ IF Validates(disk) THEN Passes ELSE Fails
    /\ UNCHANGED <<pin, runs>> /\ DiskSame /\ ServerSame

\* The tool is killed; what it was writing stays torn.
Kill == tool.step # "off" /\ Fails /\ UNCHANGED <<pin, runs>> /\ DiskSame /\ ServerSame
----------------------------------------------------------------------------
(* The server.  load_source reads the manifest, the sidecar and the files  *)
(* one after the other.                                                    *)

ToolSame == UNCHANGED <<choice, pin, disk, sidecar, tool, settled, runs>>
Exits == server' = Off /\ sound' = FALSE

\* Whatever ran before is gone.
Start ==
    /\ imported = Nothing /\ starts < MaxStarts /\ starts' = starts + 1
    /\ server' = [step |-> "sidecar", sha |-> pin, content |-> <<>>]
    /\ sound' = settled
    /\ ToolSame /\ UNCHANGED imported

Reads_AnySha(s) == s # Torn

\* StaleData; a directory without a sidecar is taken as it is.
Reads(s) == s = Absent \/ s = server.sha

ReadSidecar ==
    /\ server.step = "sidecar"
    /\ IF Reads(sidecar) THEN server' = [server EXCEPT !.step = "files"] /\ UNCHANGED sound ELSE Exits
    /\ ToolSame /\ UNCHANGED <<starts, imported>>

\* What a served model is: it says which commit it is of.
Serving(content, sha) ==
    [step |-> "serving", sha |-> sha, content |-> content, data |-> Transformed(Raw(content), FALSE)]

ReadFile ==
    /\ server.step = "files"
    /\ LET file == Files[Cardinality(DOMAIN server.content) + 1]
           content == [f \in DOMAIN server.content \cup {file} |-> IF f = file THEN disk[f] ELSE server.content[f]]
       IN IF disk[file] \notin Commits THEN Exits
          ELSE /\ server' = IF DOMAIN content # FileNames THEN [server EXCEPT !.content = content]
                            ELSE IF ~Deserializes(Raw(content)) \/ Transformed(Raw(content), FALSE) = Refused THEN Off
                            ELSE Serving(content, server.sha)
               /\ UNCHANGED sound
    /\ ToolSame /\ UNCHANGED <<starts, imported>>

\* A request brings an export.  Exports are explored before the tool has run
\* and end the exploration: an import reads the served model only.
Import ==
    /\ server.step = "serving" /\ pin = server.sha /\ choice \in ImportsOver /\ runs = 0 /\ imported = Nothing
    /\ \E x \in Exports :
         imported' = [source |-> x[1], export |-> x[2], result |-> Read(server.data, x[1], x[2])]
    /\ ToolSame /\ UNCHANGED <<server, sound, starts>>

\* A checkout holds the files of its pin, or nothing.
Init ==
    /\ choice \in PinSets /\ pin \in choice
    /\ \/ disk = [f \in FileNames |-> pin] /\ sidecar = pin /\ settled = TRUE
       \/ disk = [f \in FileNames |-> Absent] /\ sidecar = Absent /\ settled = FALSE
    /\ tool = Idle
    /\ server = Off /\ sound = FALSE
    /\ runs = 0 /\ starts = 0 /\ imported = Nothing

Next ==
    \/ Bump \/ Run \/ Compare \/ Forced \/ CheckPins \/ FetchFails
    \/ BeginWrite \/ EndWrite \/ BeginRecord \/ EndRecord \/ Validate \/ Kill
    \/ Start \/ ReadSidecar \/ ReadFile \/ Import

Spec == Init /\ [][Next]_vars
----------------------------------------------------------------------------
(* Properties.                                                             *)

InRun == {"sync", "force", "check", "fetch", "write", "record", "recording", "validate"}
Contents == Commits \cup {Torn, Absent}
FirstFiles == UNION {[{Files[i] : i \in 1 .. n} -> Commits] : n \in 0 .. Len(Files) - 1}

\* Every variable keeps its type; a server reads the files in their order.
TypeOK ==
    /\ choice \in PinSets /\ pin \in choice
    /\ disk \in [FileNames -> Contents] /\ sidecar \in Contents
    /\ \/ tool = Idle
       \/ tool \in [step : {"off"}, passed : {TRUE}, commit : Commits]
       \/ tool \in [step : InRun, commit : Commits, at : 1 .. Len(Files) + 1]
    /\ \/ server = Off
       \/ server \in [step : {"sidecar", "files"}, sha : Commits, content : FirstFiles]
       \/ /\ server.sha \in Commits /\ server.content \in [FileNames -> Commits]
          /\ server = Serving(server.content, server.sha)
    /\ settled \in BOOLEAN /\ sound \in BOOLEAN
    /\ runs \in 0 .. MaxRuns /\ starts \in 0 .. MaxStarts

\* A run that passes (whatever was killed or failed before it) leaves every
\* file at the commit it names, and a model of them that lacks no operator
\* and has every affiliation the upstream tables give (to keys that are of
\* operators: the shape of the others is not looked at).
PassedIsWhole == tool.step = "off" /\ tool.passed =>
    LET upstream == Upstream[tool.commit]  data == Transformed(upstream, FALSE) IN
    /\ \A f \in FileNames : disk[f] = tool.commit
    /\ data # Refused /\ data.skipped = {}
    /\ \A op \in DOMAIN data.operators \ NonOperators :
         /\ data.operators[op].nation = upstream.characters[op].nation
         /\ data.operators[op].team = upstream.characters[op].team

\* A server that has seen no file change under it, nor the remains of an
\* abandoned run, serves one commit, the one it says; and whatever it serves,
\* its operators refer to what it has and to the tier they have unlocked.
ServedIsWhole == server.step = "serving" =>
    /\ sound => \A f \in FileNames : server.content[f] = server.sha
    /\ HoldsTogether(server.data)

Owned(source, e) == source = "ak-planner" \/ (e.potential >= 1 /\ ~e.disowned)

\* Every owned entry of an export is in the roster, unknown, or replaced by a
\* later one; the roster fits the operators; and where nothing is told of an
\* operator it is as its entries have it.
ImportsAreAccounted == imported # Nothing /\ imported.result # Failed =>
    LET b == imported.result  x == imported.export IN
    /\ imported.source # "roster" =>
         /\ b.entries = Cardinality(DOMAIN b.roster) + b.notOwned + Count(b, "unknown") + Count(b, "duplicate")
         /\ \A op \in DOMAIN b.roster :
              LET o == server.data.operators[op]  got == b.roster[op] IN
              /\ got.phase \in 0..MaxPhase(o) /\ got.level \in 1..Cap(o, got.phase)
              /\ ToldOf(b, op) = {} => \A e \in Range(x.entries) :
                   e.id = op /\ Owned(imported.source, e) => got = [phase |-> e.elite, level |-> e.level]
    /\ DOMAIN b.roster \subseteq DOMAIN server.data.operators
=============================================================================
