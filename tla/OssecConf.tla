------------------------------ MODULE OssecConf ------------------------------
(***************************************************************************)
(* _ossec-merge.sh and its callers: provisioning of a client or of the     *)
(* monitored server, and enable-active-response.sh.  Each merges blocks    *)
(* into ossec.conf, which is read, truncated and rewritten in place, and   *)
(* restarts the service that reads it.  Callers may be repeated, overlap   *)
(* and be killed.                                                          *)
(***************************************************************************)
EXTENDS Naturals, SequencesExt, FiniteSetsExt

CONSTANTS
  Callers,      \* invocations of the scripts
  Programs,     \* the blocks each of them merges, in order
  Base,         \* the configuration the package has installed
  MaxConfKills  \* bound: callers that are killed

Blocks == {Base} \cup UNION {ToSet(Programs[c]) : c \in Callers}

ASSUME ProgramsAssumption ==
  \A c \in Callers : Programs[c] \in Seq(Blocks \ {Base}) /\ Programs[c] # <<>>
ASSUME ConfKillsAssumption == MaxConfKills \in Nat

\* A piece of the file: a block with its closing tag, or one that is cut off
\* above it, below or above its marker.
Piece(block, text) == [block |-> block, text |-> text]

VARIABLES
  conf,     \* ossec.conf
  service,  \* the configuration the service runs with, or <<>> if it is down
  at,       \* where a caller is
  done,     \* how many of its blocks it has merged
  held,     \* the file as it has read it
  mixed,    \* history: two callers were active at once
  cut,      \* history: one was killed while it wrote the file
  confKills \* number of kills so far

confVars == <<conf, service, at, done, held, mixed, cut, confKills>>

Busy == {c \in Callers : at[c] \notin {"absent", "idle", "enabled", "failed", "killed"}}

WholeBlocks(file) == {file[k].block : k \in {i \in DOMAIN file : file[i].text = "whole"}}

\* The service starts with well-formed blocks, and with one at least.
Starts(file) == file # <<>> /\ \A k \in DOMAIN file : file[k].text = "whole"

Go(c, place) == at' = [at EXCEPT ![c] = place]

ConfInit(cast) ==
  /\ conf = <<Piece(Base, "whole")>>
  /\ service = conf
  /\ at = [c \in Callers |-> IF c \in cast THEN "idle" ELSE "absent"]
  /\ done = [c \in Callers |-> 0]
  /\ held = [c \in Callers |-> <<>>]
  /\ mixed = FALSE /\ cut = FALSE /\ confKills = 0

Call(c) ==
  /\ at[c] = "idle"
  /\ Go(c, "grep")
  /\ mixed' = (mixed \/ Busy # {})
  /\ UNCHANGED <<conf, service, done, held, cut, confKills>>

-----------------------------------------------------------------------------
(* merge_ossec_snippet.                                                    *)

Block(c) == Programs[c][done[c] + 1]

\* The next block, or the restart.
Merged(c) ==
  /\ done' = [done EXCEPT ![c] = @ + 1]
  /\ Go(c, IF done[c] + 1 < Len(Programs[c]) THEN "grep" ELSE "restart")

\* Mutant: the marker is one that every block has.
HasAnyMarker(file, block) == \E k \in DOMAIN file : file[k].text # "unmarked"

HasMarker(file, block) ==
  \E k \in DOMAIN file : file[k].block = block /\ file[k].text # "unmarked"

Skip(c) ==
  /\ at[c] = "grep" /\ HasMarker(conf, Block(c))
  /\ Merged(c)
  /\ UNCHANGED <<conf, service, held, mixed, cut, confKills>>

\* Mutant: the marker is not looked for.
InsertAnyway(c) ==
  /\ at[c] = "grep"
  /\ Go(c, "read")
  /\ UNCHANGED <<conf, service, done, held, mixed, cut, confKills>>

Insert(c) ==
  /\ at[c] = "grep" /\ ~HasMarker(conf, Block(c))
  /\ Go(c, "read")
  /\ UNCHANGED <<conf, service, done, held, mixed, cut, confKills>>

Read(c) ==
  /\ at[c] = "read"
  /\ held' = [held EXCEPT ![c] = conf]
  /\ Go(c, "open")
  /\ UNCHANGED <<conf, service, done, mixed, cut, confKills>>

\* Opening for writing truncates.
Open(c) ==
  /\ at[c] = "open"
  /\ conf' = <<>>
  /\ Go(c, "write")
  /\ UNCHANGED <<service, done, held, mixed, cut, confKills>>

\* After the last closing tag; what is cut off above its own stays below.
WithBlock(file, block) ==
  LET whole == {k \in DOMAIN file : file[k].text = "whole"}
      end   == IF whole = {} THEN Len(file) ELSE Max(whole)
  IN  SubSeq(file, 1, end) \o <<Piece(block, "whole")>> \o SubSeq(file, end + 1, Len(file))

\* What there may be of a file before the last of it is written.
Cuts(file) ==
  UNION {{SubSeq(file, 1, k - 1)}
         \cup {Append(SubSeq(file, 1, k - 1), Piece(file[k].block, text)) :
                 text \in {"marked", "unmarked"} \ {file[k].text}} :
           k \in DOMAIN file}

WritePart(c) ==
  /\ at[c] = "write"
  /\ conf' \in Cuts(WithBlock(held[c], Block(c)))
  /\ Go(c, "part")
  /\ UNCHANGED <<service, done, held, mixed, cut, confKills>>

\* Of two writers either may leave its file, with the end of the other's.
Ends(c) == IF mixed THEN {<<>>} \cup {<<Piece(b, "marked")>> : b \in Blocks \ {Base}} ELSE {<<>>}

WriteRest(c) ==
  /\ at[c] \in {"write", "part"}
  /\ \E end \in Ends(c) : conf' = WithBlock(held[c], Block(c)) \o end
  /\ held' = [held EXCEPT ![c] = <<>>]
  /\ Merged(c)
  /\ UNCHANGED <<service, mixed, cut, confKills>>

-----------------------------------------------------------------------------
\* Mutant: the service is started, if it is down.
StartService(c) ==
  /\ at[c] = "restart"
  /\ service' = IF service = <<>> /\ Starts(conf) THEN conf ELSE service
  /\ Go(c, IF service' # <<>> THEN "enabled" ELSE "failed")
  /\ UNCHANGED <<conf, done, held, mixed, cut, confKills>>

RestartService(c) ==
  /\ at[c] = "restart"
  /\ service' = IF Starts(conf) THEN conf ELSE <<>>
  /\ Go(c, IF Starts(conf) THEN "enabled" ELSE "failed")
  /\ UNCHANGED <<conf, done, held, mixed, cut, confKills>>

KillCaller(c) ==
  /\ c \in Busy
  /\ confKills < MaxConfKills
  /\ confKills' = confKills + 1
  /\ cut' = (cut \/ at[c] \in {"write", "part"})
  /\ held' = [held EXCEPT ![c] = <<>>]
  /\ Go(c, "killed")
  /\ UNCHANGED <<conf, service, done, mixed>>

ConfNext ==
  \E c \in Callers :
    \/ Call(c) \/ Skip(c) \/ Insert(c) \/ Read(c) \/ Open(c)
    \/ WritePart(c) \/ WriteRest(c) \/ RestartService(c) \/ KillCaller(c)

-----------------------------------------------------------------------------
(* Properties.                                                             *)

Writing == \E c \in Callers : at[c] \in {"write", "part"}

\* Unless two callers overlap, no block is in the file twice, however often
\* the scripts are repeated and wherever they are killed: a block that is cut
\* off may be followed by a whole one, but never a whole one by another
\* (_ossec-merge.sh:17, the marker).
NoBlockTwice ==
  ~mixed => \A i, j \in DOMAIN conf :
    conf[i].text = "whole" /\ conf[j] = conf[i] => i = j

\* Unless two callers overlap, or one was killed between the opening and the
\* closing of the file, the package's configuration and every block that a
\* caller has passed are in the file, whole, whenever nobody is writing it; a
\* kill before the opening loses nothing (_ossec-merge.sh:36).
MergedBlocksStay ==
  ~mixed /\ ~cut /\ ~Writing =>
    WholeBlocks(conf) = {Base} \cup UNION {{Programs[c][k] : k \in 1..done[c]} : c \in Callers}

\* A caller that has announced success has its blocks in the configuration
\* that the service runs with, also after later callers, under the same
\* conditions (enable-active-response.sh:30, "ENABLED").
EnabledIsLoaded ==
  ~mixed /\ ~cut => \A c \in Callers : at[c] = "enabled" =>
    {Base} \cup ToSet(Programs[c]) \subseteq WholeBlocks(service)

-----------------------------------------------------------------------------
(* What the helper says of itself, and does not do: each of these has a    *)
(* configuration that finds it violated.                                   *)

\* A snippet is appended, so the package's configuration is in the file
\* whenever nobody writes it (_ossec-merge.sh:2, "append").  The file is
\* truncated and written anew: a caller that is killed meanwhile leaves a part.
AppendKeepsTheRest == ~mixed /\ ~Writing => Base \in WholeBlocks(conf)

\* A snippet is in the file once (_ossec-merge.sh:3, "once").  Two callers
\* that both look for the marker before either writes insert it twice.
SnippetsAreThereOnce ==
  \A i, j \in DOMAIN conf : conf[i].text = "whole" /\ conf[j] = conf[i] => i = j
=============================================================================
