----------------------------- MODULE Trampoline -----------------------------
(***************************************************************************)
(* From the loader's last step to the container's first: the loader fills  *)
(* in the trampoline's arguments from the layout that the build accepted   *)
(* and jumps; the trampoline asks the monitor for a backup and zeroes six  *)
(* ranges of memory, reading each from the argument block when its turn    *)
(* comes.  It runs from memory itself.  The IPC buffer of its call is not  *)
(* the layout's region IPC_BUFFER, but a page that the build does not know *)
(* of.                                                                     *)
(* Sources: trampoline/trampoline.c, src/trustedlo_cfuncs.c                *)
(* (mktxlo_fill_tramp_args), include/trampoline.h.                         *)
(***************************************************************************)
EXTENDS VmLayout

CONSTANTS
  StackName,  \* the region of the Microkit stack: by architecture
  IpcBuffer   \* address of the top page of user memory: by seL4's headers

(* The fields of tsldr_vm_layout that the C code uses; without one of them *)
(* it does not compile.                                                    *)
Needed ==
  {"IPC_BUFFER", "LOADER_PROGRAM", "LOADER_METADATA", "TXLO_XRT_REQ",
   "TRAMPOLINE_ARGS", "LOADER_CONTEXT", "TRAMPOLINE_IMAGE",
   "TRAMPOLINE_PROGRAM", "CONTAINER_IMAGE", "CONTAINER_PROGRAM",
   "CONTAINER_STACK", "TRAMPOLINE_STACK", StackName}

ASSUME StackNameAssumption ==
  StackName \in {"MICROKIT_X86_STACK", "MICROKIT_AARCH64_STACK"}
ASSUME IpcBufferAssumption ==
  IpcBuffer \in Nat /\ IpcBuffer % PageSize = 0 /\ IpcBuffer + PageSize <= Words

VARIABLES
  pc,        \* where the PD's thread is
  args,      \* trampoline_args_t.regions, as the loader wrote it
  turn,      \* index of the trampoline's loop
  memory     \* whose data each address holds: the region's, a "message",
             \* "zero", or none's

runVars == <<pc, args, turn, memory>>
vars == <<layoutVars, runVars>>

Address == 0 .. Words - 1
Named(name) == vm_regions[CHOOSE n \in Indices : vm_regions[n].name = name]
Span(name) == Named(name).base .. End(Named(name)) - 1
Intact(name) == \A a \in Span(name) : memory[a] = name

(* __sel4_ipc_buffer, which is less than a page, taken as the whole page. *)
IpcPage == IpcBuffer .. IpcBuffer + PageSize - 1

Extent(address, size) == [address |-> address, size |-> size]
Whole(name) == Extent(Named(name).base, Named(name).size)

Init ==
  /\ LayoutInit
  /\ pc = "built" /\ args = <<>> /\ turn = 1
  /\ memory = [a \in Address |-> "none"]

Generate == LayoutNext /\ UNCHANGED runVars

(* Mutant of TrampRegions: the trampoline's stack in place of the          *)
(* container's.                                                            *)
TrampRegionsOwnStack ==
  <<Extent(Named(StackName).base, PageSize), Whole("LOADER_METADATA"),
    Whole("TXLO_XRT_REQ"), Whole("TRAMPOLINE_STACK"), Whole("LOADER_CONTEXT"),
    Whole("LOADER_PROGRAM")>>

(* REGION_TSLDR_STACK .. REGION_TSLDR_PROGRAM, in the order of the enum. *)
TrampRegions ==
  <<Extent(Named(StackName).base, PageSize), Whole("LOADER_METADATA"),
    Whole("TXLO_XRT_REQ"), Whole("CONTAINER_STACK"), Whole("LOADER_CONTEXT"),
    Whole("LOADER_PROGRAM")>>

(* The loader has run and loaded both payloads: every region is in use. *)
FillTrampArgs ==
  /\ build = "accepted"
  /\ Needed \subseteq names
  /\ pc = "built"
  /\ pc' = "backup"
  /\ args' = TrampRegions
  /\ memory' = [a \in Address |->
                  IF \E name \in Needed : a \in Span(name)
                  THEN CHOOSE name \in Needed : a \in Span(name)
                  ELSE "none"]
  /\ UNCHANGED <<layoutVars, turn>>

(* What the trampoline executes, its stack and its arguments. *)
CanRun ==
  \A name \in {"TRAMPOLINE_PROGRAM", "TRAMPOLINE_STACK", "TRAMPOLINE_ARGS"} :
    Intact(name)

(* Without one of them, what it does from then on is not modelled. *)
GoAstray ==
  /\ pc \in {"backup", "wipe"} /\ ~CanRun
  /\ pc' = "astray"
  /\ UNCHANGED <<layoutVars, args, turn, memory>>

(* seL4_SetMR and seL4_Call: the PD waits for the monitor. *)
Backup ==
  /\ pc = "backup" /\ CanRun
  /\ pc' = "calling"
  /\ memory' = [a \in Address |-> IF a \in IpcPage THEN "message" ELSE memory[a]]
  /\ UNCHANGED <<layoutVars, args, turn>>

(* The monitor's answer, which leaves the message registers written. *)
Answered ==
  /\ pc = "calling"
  /\ pc' = "wipe"
  /\ UNCHANGED <<layoutVars, args, turn, memory>>

(* The monitor's answer is an error: abort_trampoline. *)
Abort ==
  /\ pc = "calling"
  /\ pc' = "aborted"
  /\ UNCHANGED <<layoutVars, args, turn, memory>>

(* Mutant of LastTurn: the loop ends before REGION_TSLDR_PROGRAM. *)
LastTurnTooSoon == Len(args) - 1
LastTurn == Len(args)

WipeRegion ==
  /\ pc = "wipe" /\ CanRun
  /\ turn <= LastTurn
  /\ memory' = [a \in Address |->
                  IF a \in args[turn].address .. args[turn].address + args[turn].size - 1
                  THEN "zero" ELSE memory[a]]
  /\ turn' = turn + 1
  /\ UNCHANGED <<layoutVars, pc, args>>

JumpToContainer ==
  /\ pc = "wipe" /\ CanRun
  /\ turn > LastTurn
  /\ pc' = "container"
  /\ UNCHANGED <<layoutVars, args, turn, memory>>

RunNext == FillTrampArgs \/ Backup \/ WipeRegion \/ JumpToContainer \/ GoAstray

MonitorAnswers == Answered \/ Abort

Next == Generate \/ RunNext \/ MonitorAnswers

(* The kernel schedules the PD's only thread while it can run; nothing     *)
(* obliges the monitor to answer.                                          *)
Spec == Init /\ [][Next]_vars /\ WF_vars(RunNext)
-----------------------------------------------------------------------------
(* Properties.                                                             *)

(* Every variable has its type; no extent that the trampoline zeroes       *)
(* reaches past the last address.                                          *)
TypeOK ==
  /\ build \in {"regions", "overlaps", "accepted", "rejected"}
  /\ vm_regions \in Seq(Region)
  /\ at \in Nat \ {0}
  /\ passed \subseteq Indices /\ previous \in Indices \cup {0}
  /\ pc \in {"built", "backup", "calling", "wipe", "container", "aborted", "astray"}
  /\ args \in Seq({e \in [address : Address, size : Address] : e.address + e.size < Words})
  /\ turn \in 1 .. Len(args) + 1
  /\ DOMAIN memory = Address

(* What has to outlast the wiping. *)
Spared == {"TRAMPOLINE_PROGRAM", "TRAMPOLINE_STACK", "TRAMPOLINE_ARGS",
           "CONTAINER_PROGRAM"}

(* The generator does not look at the page of the IPC buffer. *)
IpcApartFrom(regions) == \A name \in regions : Span(name) \cap IpcPage = {}

(* With any layout the build accepts, nothing of the trampoline and of the *)
(* container's program is overwritten, neither by the zeroing nor by the   *)
(* backup call, unless the IPC buffer's page, which the build does not     *)
(* check, lies in one of their regions; and if it lies in no region, the   *)
(* zeroing leaves it alone, too.                                           *)
WipeSparesTheRest ==
  pc \in {"backup", "calling", "wipe", "container"} =>
    /\ IpcApartFrom(Spared) => \A name \in Spared : Intact(name)
    /\ pc # "backup" /\ IpcApartFrom(Needed) =>
         \A a \in IpcPage : memory[a] = "message"

(* The container finds nothing of the request, the delegator record, the   *)
(* context and the loader, nor an earlier container's stack; of the        *)
(* Microkit stack the first page is zeroed, which is all of it as          *)
(* config/vm_layout.py has it.                                             *)
LoaderErased ==
  pc = "container" =>
    /\ \A name \in {"LOADER_METADATA", "TXLO_XRT_REQ", "LOADER_CONTEXT",
                    "LOADER_PROGRAM", "CONTAINER_STACK"} :
         \A a \in Span(name) : memory[a] = "zero"
    /\ Named(StackName).size = PageSize =>
         \A a \in Span(StackName) : memory[a] = "zero"

(* A layout that is accepted and complete, and whose own regions are not   *)
(* the IPC buffer's page, brings the PD to the container, or to an abort,  *)
(* unless the monitor never answers the backup call.                       *)
HandoverEnds ==
  (build = "accepted" /\ Needed \subseteq names /\ IpcApartFrom(Spared))
    ~> (pc \in {"container", "aborted"} \/ [](pc = "calling"))
=============================================================================
