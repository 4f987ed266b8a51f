# libtrustedlo in TLA+

This directory specifies libtrustedlo: a library with which a *monitor* protection
domain (PD) of a Microkit system loads one container after another into the same
*template PD*, and gives each container only the capabilities asked for it.
The specifications are checked with TLC on small instances; the theorems are
checked by TLAPS for every value of the constants.

## 1. The system

All paths are relative to `src/`.

### Components, their state and operations

| Component | Source | State | Operations |
|---|---|---|---|
| Monitor library | `src/trustedlo_mfuncs.c` | none of its own: it writes the request page, the metadata page and the grant slot of the template PD | `mktxlo_prepare_xrt_req_list`, `mktxlo_privilege_template_pd` |
| Loader | `src/trustedlo_cfuncs.c`, `loader/loader.c` | the context page (`trustedlo_ctxt_t`: `switch_count`, the `allowed` states of each channel kind, `mappings`, `mapping_count`) | `mktxlo_self_load_entry` and what it calls, in this order: image checks, `mktxlo_context_activate`, `mktxlo_context_refresh` (parse, populate, `mktxlo_enforce_pola`, deprivilege), `mktxlo_client_image_load`, trampoline payload, `mktxlo_fill_tramp_args`, `mktxlo_fill_client_args`, jump |
| Access-right engine | `src/xrt.c`, `include/libtrustedlo.h` | the states above, and the entries of request and delegator record | encode and decode of entries, search of the delegator record, `Allow` transition, `revoke_*`, `restore_*` |
| Capability operations | `src/cap.c`, `include/txlocap.h` | the Microkit CNode of the PD, its address space, the grant slot | copy, delete, map, unmap, deprivilege |
| Trampoline | `trampoline/trampoline.c` | its argument block | backup call, abort, region-wise wipe, jump to the container |
| ELF and symbols | `src/miscutils.c`, `src/mktsymb.c`, `src/trustedlo_cfuncs.c` | the program region | `tsldr_miscutil_load_elf`, `mktxlo_elf_find_symbol`, `mktxlo_client_patch_symbols`, `mktsymb_read*` |
| VM layout | `config/vm_layout.py`, `tools/gen_vm_layout.py` | none (build time) | validation and header generation |
| Memory, debug output, ELF types, build files | `src/memory.c`, `dbg_print`, `include/elf.h`, makefiles and linker scripts | none | byte loops, output, constants |

### Interaction

The components share pages, not messages. The monitor writes a request, a
delegator record (`metadata` below) and a context page into the template PD's
memory and starts the loader there; the loader reads them, works on the CNode through the
*grant* (the delegation CNode that the monitor copied into the slot
`DELEGATION_GRANT_ROOT_SLOT`) and deletes the grant; the trampoline calls the monitor
once (a protected procedure call), which saves the context page before it
answers; the trampoline zeroes the loader's regions and jumps to the container.
The only thread of the PD executes loader, trampoline and container one after
the other. The monitor acts while the PD is stopped or waits in that call.

### What is hard

* **History.** Revocation and restoration have no record of the PD's
  capabilities but the states in the context page, which all earlier rounds wrote: a
  wrong state shows a container or several later.
* **Partial failure.** An attempt can stop at each of a dozen checks, some of
  them after capabilities have changed, and is retried on what it left.
* **Persistence.** The context page is zeroed by the trampoline and written back by
  the monitor. After an attempt that failed before the backup call, the saved
  copy is older than the page.
* **Order.** Rights that are no longer wanted must go before new ones come;
  kept ones must not be interrupted; the grant must go before the container's
  image is touched; the backup must precede the wipe.
* **Bounds.** `mapping_count` guards three arrays; `header.total_num` says how
  many entries are read; channel numbers are shifted as `int`s.

`PROJECT.json` lists each hazard at its line with the properties that cover it.

### What makes each component correct

* *Engine and loader*: a container holds exactly what was asked for it and never
  what was not delegated; the states agree with the capabilities at every step;
  bad requests end in a fault or a return, never in a wedge of later attempts.
* *Capability operations*: without the grant nothing changes; after the
  deprivileging nothing can.
* *Trampoline*: nothing is wiped that was not saved; the container finds nothing
  of the loader.
* *ELF and symbols*: only the program region is written, by the bytes of the image.
* *VM layout*: the regions are disjoint and aligned.

## 2. The modules

```
Xrt ------> InfoPage ------> TrustedLoader ---> MCTrustedLoader     (runs)
  |                            ^        `-----> TrustedLoaderProofs (theorems)
  |       LeastPrivilege ------'                  `-> LeastPrivilegeProofs (theorems)
  |       (INSTANCE, refinement)
  `-------> RequestPage ---> MCRequestPage      (runs)
                   `-------> RequestPageProofs  (theorems)

CapSpace -------> MCCapSpace       (runs)
  ^      `------> CapSpaceProofs   (theorems)
  CapService (INSTANCE, refinement)

ClientImage ----> MCClientImage       (runs)
          `-----> ClientImageProofs   (theorems)

VmLayout -------> Trampoline ------> MCTrampoline       (runs)
       |                  `--------> TrampolineProofs   (theorems)
       `--------> VmLayoutProofs ------^
NumberProofs: facts about numbers, for the proof modules
```

**`Xrt`** is the data of access rights: kinds and states, entries, the delegator
record, `FindResource` and `Delegated` (`trustedlo_xrt_util_find_resource`, `trustedlo_xrt_util_check_*`), `Allow` (the
inline state transition of `libtrustedlo.h`: `UNSET` to `ALLOWED`, `USED` to `KEEP`,
and everything else to `ALLOWED`), `Encode` (`mktxlo_prepare_xrt_req_list`).

**`InfoPage`** is the delegator record byte by byte, for one purpose: `mktxlo_fill_client_args` is handed its
page and reads it as a `txlo_info_t`, whose bitmaps lie where the record has its header and resources.
`ResourceByte` and `RecordByte` are the packed structs of `txlodlg.h`, `ToldAlways` the channels whose bits
are set in the words that the function takes for the bitmaps. With one resource there are none.

**`TrustedLoader`** is the state machine of one template PD and its monitor.

| Variable | In the code |
|---|---|
| `pc`, `kind`, `at` | where the PD's thread is: the function of the loader, the array and the index of the loop |
| `defect` | what will be wrong with this attempt's images, or that the monitor refuses the backup call (fixed when the attempt starts) |
| `switch_count`, `allowed`, `mappings` | the context page, field by field |
| `saved`, `wiped` | the monitor's copy of it; whether the page has been zeroed since |
| `request` | ghost: the entries the monitor last encoded |
| `header`, `xrt_list`, `metadata` | the request page (header and entries) and the delegator record |
| `held`, `mapped`, `grant` | the occupied slots of the PD's CNode, the regions mapped, the grant slot |
| `client_args` | the channels set in the four bitmaps that `mktxlo_fill_client_args` computes |

| Action | Code |
|---|---|
| `PrepareXrtReqList`, `PrivilegeTemplatePd` | the two functions of the monitor library |
| `StartLoader`, `StopPd` | external: the monitor around the library |
| `CheckImages`, `ContextActivate`, `ParseHeader` | `mktxlo_self_load_entry` up to the parsing of the header |
| `PopulateChannel`, `PopulateMapping`, `PopulateAssertFails`, `PopulateRejects`, `PopulateDone` | one entry per step |
| `RevokeFirstTime`, `RevokeCaps`, `RevokeFails` | `mktxlo_revoke_caps` |
| `RestoreKept`, `RestoreSkips`, `RestoreCopies`, `RestoreCopyFails`, `RestoreNextKind`, `RestoreMapping*`, `RestoreDone` | `mktxlo_restore_caps`, one array element per step |
| `Deprivilege` | `trustedlo_cap_util_pd_deprivilege` |
| `LoadPayloads`, `LoadPayloadsFails` | image, trampoline payload and container arguments, by their outcome |
| `TrampolineBackup`, `TrampolineAborts`, `TrampolineWipe` | `trampoline.c` |

Grain: loops that can stop half way (populate, restore) take one step per element.
The loops of revocation are one step: a delete or an unmap fails only when
the grant is missing, and then the first one does. A region of memory is one
mapping, and the kernel grants it: pages, and what happens when it does not, are in `CapSpace`. The request page is
a header and a sequence of entries: its words are in `RequestPage`.

**`LeastPrivilege`** is the abstract specification of what the loader promises about
channels: while no container runs, the wanted set may change, unwanted rights are dropped,
*then* wanted rights are granted, and a container starts only when it holds exactly
the wanted set. `TrustedLoader!LP` is the refinement mapping.

**`CapSpace`** is the level below: the capability operations of `cap.c` at the slot numbers of `txlocap.h`, and
the loops of `xrt.c` over the pages of a mapping. Which operation comes when is left open: every order that
`TrustedLoader` can produce is among them.

| Variable | In the code |
|---|---|
| `crashed` | has a library call ended in `microkit_internal_crash`? |
| `grant` | the slot `DELEGATION_GRANT_ROOT_SLOT` |
| `mk` | the capability in each slot of the PD's Microkit CNode (the delegation CNode never changes: `Delivered`) |
| `mapped_at`, `pt` | the kernel's side: where a page is mapped, and which page is at an address |
| `used` | the regions whose `mapping_state` is `USED` |

| Action | Code |
|---|---|
| `Privilege`, `Deprivilege`, `Ungranted` | `pd_privilege`, `pd_deprivilege`, and any other operation without the grant |
| `RevokeChannel`, `RestoreChannel`, `RestoreChannelFails` | `revoke_*_cap`, `restore_*_cap` (those of IRQs do nothing) |
| `GrantIgnored`, `GrantRange`, `GrantRangeFails`, `RevokeRange` | `pd_grant_page_access`, `pd_revoke_page_access` |
| `Restart` | external: the monitor restarts the PD; CNodes and address space are as they were |

Regions are mapped and unmapped by the system calls for ranges of pages (`CONFIG_ARM_ABS_MAP`, `CONFIG_X86_ABS_MAP`).
`cap.c` also has branches that move, map and move back one page at a time (lines 180-190 and 213-220), but no build contains
them: whenever they are compiled, the same file stops at an `#error` (lines 302, 319, 323, 348, 362, 366).

The header also defines `BACKUP_PPC_BASE_CAP` (138), which nothing uses: the code copies PPCs from
`PPC_BASE_CAP` (74). At 138 there are pages; `SlotsAreTheirOwn` fails if the named range is used.

**`CapService`** is what `TrustedLoader` assumes of these operations: a call changes the one right it is about,
with the grant only; a region is reachable whole or not; a call that fails stops the PD. `CapSpace!CS` is the
refinement mapping: a region counts as mapped when each of its pages is at its own address.

**`RequestPage`** is the request page word by word: the monitor serialises a request of any length at any word, over what
is there, and the loader reads as many entries as the header says from where it says.

| Variable | In the code |
|---|---|
| `pc`, `at` | who is working on the page, and the index of the loop |
| `request`, `base` | ghosts: the entries that are being serialised and where |
| `page` | the words of the region `TXLO_XRT_REQ` |
| `overrun` | ghost: has serialising gone past its end? |
| `entries`, `reads` | ghosts: the entries the loader has decoded, and the words it has read for them |

| Action | Code |
|---|---|
| `PrepareXrtReqList`, `EncodeEntry` | `trustedlo_xrt_util_encode_xrts`, one entry per step; of an entry's first word one byte is written |
| `WriteHeader`, `StartLoader`, `AttemptFails` | external: the monitor |
| `ParseHeader` | `trustedlo_xrt_util_parse_xrt_header` |
| `ReadEntry`, `ReadUnknown`, `PopulateDone` | `trustedlo_xrt_util_populate_xrts` with the `switch` of `trustedlo_acrt_workerfunc`; its assertions are in `TrustedLoader` |
| `WipePage` | the trampoline |

**`ClientImage`** is what `TrustedLoader!LoadPayloads` stands for: `tsldr_miscutil_load_elf`
and the symbol patches after it, for one image after the other. Addresses and sizes
are unsigned words, and a subtraction is `Minus`, modulo `Words`, wherever the C code subtracts.

| Variable | In the code |
|---|---|
| `pc`, `at` | the loop the loader is in and its index |
| `image`, `attempts` | the image in the region `container_image`, and how many there were |
| `memory` | what each word of the PD's address space holds: a byte of the ELF file, of a new symbol value, zero, or what no image wrote |
| `written`, `read` | ghosts: addresses written and file offsets read by this attempt |

| Action | Code |
|---|---|
| `BeginLoad`, `CheckHeaders` | `mktxlo_client_image_load` up to the first loop: table and entry point |
| `SkipSegment`, `RejectSegment`, `LoadSegment`, `SegmentsDone` | the loop over the program headers: checks, copy and zero fill of one segment |
| `PatchSymbol`, `RejectSymbol`, `SymbolsDone` | the loop of `mktxlo_client_patch_symbols` |

The trampoline's payload goes through the same function: it is an image without new
symbol values. Section headers and string tables are abstracted to the sequence of symbols
in the order the search meets them, and the symbol image to the sequence of its records:
that both lie inside the file, and that `symbol_cnt` is the number of records, is assumed as the
code assumes it (it checks neither). A symbol whose address lies in the image itself is out of scope.

**`VmLayout`** is the build step: `validate_regions` and `require_regions` of the
generator over a configuration, which is a list of named regions.

| Variable | In the code |
|---|---|
| `build` | where `main` is, or how it ended |
| `vm_regions`, `at`, `names` | the list, the index of the first loop, the names it has met |
| `passed`, `previous` | how far the second loop has come in the sorted list |

`CheckRegion`, `RejectRegion`, `RegionsDone` are the first loop, `CheckNext`,
`RejectOverlap` the second one, `RequireRegions` the check of names. The sorted list is
not built: `IsNext` says which region comes next in it. Wrong Python types and
the form of names are left out.

**`Trampoline`** composes the build with what runs on its layout: once a layout is accepted, and has
every region that the C code names (it would not compile otherwise), `FillTrampArgs` hands over
to the trampoline, which calls the monitor for the backup (`Backup`; the monitor answers with `Answered` or `Abort`, or
not at all), zeroes six ranges one at a time (`WipeRegion`) and jumps (`JumpToContainer`).

| Variable | In the code |
|---|---|
| `pc`, `turn` | where the PD's thread is; the index of the loop in `trampoline_entry` |
| `args` | `trampoline_args_t.regions` |
| `memory` | for each address the region whose data is there, a message of the backup call, or zero |

Steps need the trampoline's own program, stack and arguments to be intact (`CanRun`): with a layout that makes it overwrite
one of them, it goes astray (`GoAstray`). What the backup call saves is in `TrustedLoader`.

The call writes the IPC buffer, and `trampoline.c:18-19` has that in the top page of user memory. This is not the layout's region
`IPC_BUFFER` (0x100000), which the loader passes on in the arguments and nobody reads, but a page (`IpcPage`) that the generator knows nothing
of and that may therefore lie in any region. Where it is follows from seL4's headers, which are not in the repository; the
constant `IpcBuffer` stands for it. The layout has its Microkit stacks at the top of user memory, too, and the trampoline zeroes the
first page of one of them. So `WipeSparesTheRest` and `HandoverEnds` have a hypothesis that the build does not check: that
the page lies in none of the regions that have to outlast the wipe; and only if it lies in no region at all is what the call has written
there still there when the container starts.

The **`MC...`** modules give the constants small values; the **`...Proofs`** modules hold the theorems.

### Assumptions about code that is not here

The monitor is not in this repository; the constants name what the runs assume of it.

* `KeepsPage`: after an attempt that never reached the backup call, the monitor does not
  write its (older) copy over the context page.
* `PrivilegesFirst`: the monitor calls `mktxlo_privilege_template_pd` before each start.
* `Slack`: by how much the header's `total_num` may exceed what was encoded.
* `Requests`: well-formed or not, per run.
* `Bases` (`RequestPage`): where the monitor serialises; there is room for `MAX_XRT_NUM` entries after it, and
  the header says where it is. The code does not check the latter from above.
* The microkernel: `seL4_CNode_Copy` refuses an occupied destination, deletion of an
  empty slot succeeds, and every operation through the grant fails without it. A page is mapped where it is
  mapped already, or if it is mapped nowhere; where another page is, the kernel may refuse or replace it
  (`Occupied`); a range that is refused may stay mapped up to the refused page (`MapStopsAt`).
* The system build: the delegation CNode holds the delegated channels and pages at the slots the library
  expects (`Delivered`), regions do not share pages or addresses, and lie above the slots of channels.

### Fairness

`FairSpec` has weak fairness of the loader's steps together (`LoaderNext`): the
kernel schedules a runnable PD, and the PD has one thread. No fairness is assumed of the
monitor. So liveness is only claimed of attempts that have started; and as the trampoline's backup call waits for the monitor
(`MonitorAnswers`, which is not part of `LoaderNext`), of those whose call is answered: `LoadSettles` and `GoodLoadRuns` end
with "or the PD waits in that call for ever". `Trampoline!Spec` has the same fairness for the trampoline's own steps
(`RunNext`), and `HandoverEnds` the same exception.

## 3. The runs

| Run | Instance | Question |
|---|---|---|
| `Reload` | nine requests with none, one or two of the same regions, every defect, a monitor that keeps the page and privileges first | does each container run with exactly its channels and all its regions, whatever came before? (`GrantedExactly`, `RequestedRegionsMapped`, `ImplementsLeastPrivilege`); does the context know what is mapped (`MappingsTracked`); can an attempt fail for what earlier ones left (`StopsForCause`), and does a good one get through (`GoodLoadRuns`)? |
| `Malformed` | requests with duplicates, undelegated and out-of-range channels, counts beyond the encoded list, missing grants | does the context still agree with the capabilities (`ContextTracksCaps`), is a container told of what it holds (`ClientToldOfHeld`), is no kept right interrupted (`KeptAcrossReload`)? |
| `Forgetful` | the same, with a monitor that may write an outdated context, and with too many and with unmappable regions | what remains: `TypeOK`, `Deprivileged`, `OnlyDelegated`, and every attempt ends, unless the monitor never answers (`LoadSettles`) |
| `Slots` | two channel numbers, five regions at the ends of the slot range, one with an unmappable page | is each slot its own (`SlotsAreTheirOwn`), a used region mapped in full (`UsedRegionsAreWhole`); is what a refused call leaves in the way of a later one (`CallsCanBeRepeated`); are the operations what the loader relies on (`ImplementsCapService`, `TypeOK`)? |
| `Requests` | a page of nine words with room for three entries, five requests of up to five, three places (one over the header), headers that count one too many | does the loader stay in the page (`ReadsInPage`), and is what it accepts what was asked for (`RequestArrives`)? |
| `Images` | two images, one after the other: a program header of any of 241 shapes before and after a good one, 120 headers, and 20 images with overlapping segments and symbols | can a segment reach outside the region (`WritesInside`) or a read past the file (`ReadsInside`, `TypeOK`); is an accepted image laid out as its file says, over whatever was there (`LaidOut`)? |
| `Handover` | up to three regions of every place, size, name clash and order; the configured layout in single pages, with one region moved, resized or left out | does comparing neighbours accept exactly the valid layouts (`AcceptsExactlyValid`); with each of these, does the trampoline erase the loader (`LoaderErased`) and nothing that has to stay (`WipeSparesTheRest`, `TypeOK`), and does it get to the container (`HandoverEnds`)? |
| `StaleRegion`, `KeptRegion`, `ListedTwice`, `AbandonedRequest` | minimal instances | counterexamples to comments of the source, section 5 |

Bounds. `MaxChannels` (62 in the code) is 2 or less in the runs about regions and
2 in those about channels: a channel's state depends on the other channels only through
the order of the loops, so two channels show both "before" and "after" in every loop,
and the region list can be empty, partly full, full, and one too long. `PageEntries` is
one or two more than the longest request, so that `total_num` can reach stale
entries. `IntBits` is 1 in `Reload`, where the channels are then at and above the sign
bit (what the bitmaps hold is not among that run's questions, but every outcome is explored), and 32 elsewhere,
where every channel is below it. In the runs of `TrustedLoader` no bound cuts off behaviour: sequences of containers, failed
attempts and retries are unbounded, every reachable state is explored.

The regions of `Reload`'s requests are two, none or the first only: so a region is left out, asked for again, kept, and added
after another that was kept. Lists that disagree on the region of a place are in `KeptRegion`, where the property fails.

`Slots` has the slot numbers of the code: 1024 slots in each CNode, of which two channels of each kind and eight pages are
used, at both ends of the range of page slots and across the upper one. Two channels of each kind show a neighbour's slot; a
region of two pages shows a call that is refused at the first page or after it. Nothing bounds the number of calls, crashes and restarts.

`Requests` has words of 1024 values, so that a word is a byte (the type) and some padding, and a page in which three entries
fit after the header (`MaxXrt` is as many as fit, as in the code, where it is fewer): requests are empty, fit, fill the page, and are
one or two too long. Several requests are written over each other.

The images of `MCClientImage` have sixteen words (`Words`), a region of four at address 10 and
files of eight: small enough that addresses, offsets and sizes can be below, at and past every limit, and
that a sum or an unchecked difference wraps around. `MaxAttempts` is 2: the second image is loaded
over a first one that was accepted or rejected at any point. The run deadlocks when the attempts are used up.

`MCTrampoline` has pages of two addresses, so that regions can be misaligned, and 44 addresses; three regions are
the fewest with which a region that is not a neighbour could overlap. The configured layout has pages in place of its regions and
no guard pages, so that each change of one region makes it touch or overlap others. The IPC buffer's page is apart from the
configured regions, and in the way of one of them in some of the changed layouts. The
specification ends, so its run does not check for deadlock; that the trampoline does not get stuck is `HandoverEnds`.

## 4. What is proved

In `TrustedLoaderProofs`, for any number of channels, resources, entries and requests:

| Theorem | Assumes | Says |
|---|---|---|
| `TypeCorrect` | | `[]TypeOK`: also that the mapping counter stays inside its arrays and that each counted mapping has a resource |
| `NeverUndelegated` | | `[]OnlyDelegated`: whatever is in the request page, and whichever copy of the context the monitor writes back, the PD never gets a right its delegator record does not list |
| `NoGrantForClient` | | `[]Deprivileged` |
| `ContextNeverLosesTrack` | `KeepsPage` | `[]ContextTracksCaps`: at every step, failed attempts included, the states agree with the capabilities |
| `ClientKnowsItsChannels` | `KeepsPage` | `[]ClientToldOfHeld`: a container is told of the channels it holds, and of no others but those of `ToldAlways` |
| `KeptRightsStay` | | `KeptAcrossReload`: a right that is held and requested again is not interrupted |

In `LeastPrivilegeProofs`, for the same and any set of requests that meets the hypothesis:

| Theorem | Assumes | Says |
|---|---|---|
| `ContainersGetWhatWasAsked` | `DiligentMonitor` | `[]GrantedExactly`: a container holds exactly the channels its request lists |
| `AttemptsStopForCause` | `DiligentMonitor` | `[]StopsForCause`: an attempt fails for its own images, backup call or request, never for what earlier ones left |
| `LeastPrivilegeImplemented` | `DiligentMonitor` | `Spec => LP!Spec`: monitor and loader implement `LeastPrivilege` |
| `CopiesFindRoom` | `DiligentMonitor` | `[]AllowedSlotsAreVacant`: the comment that `ListedTwice` refutes is true of such a monitor |
| `AskedRegionsMapped` | `Slack = {0}`, `AlignedRegions` | `[]RequestedRegionsMapped`: a container has mapped every region its request lists, also after regions were left out or an outdated context was written back |
| `MappingsNeverLost` | `DiligentMonitor`, `AlignedRegions` | `[]MappingsTracked`: the context's regions in use are the mapped ones, at every step |

The two hypotheses are operators of `TrustedLoader`, on constants only. `DiligentMonitor` says that the monitor leaves the context
page alone after an attempt that never reported (`KeepsPage`), installs the grant before it starts the PD (`PrivilegesFirst`), counts
in the header what it has encoded (`Slack`), and asks only for what the record delegates, no channel twice and no more regions than the arrays hold
(`WellFormed`). `AlignedRegions` says that two requests which both list a region at some place of their lists list the same one there, and that
page slots are in range. Requests may be of any length: a region is left out and asked for again, which is where the counter of mappings, reset
by each attempt, and the states, which are not, have to stay in step. The code checks
some of this and depends on all of it: without `KeepsPage` the states and the capabilities part, `ListedTwice` and `AbandonedRequest` show what becomes of
duplicates and refused entries, `KeptRegion` of a region in another's place. Slots out of range are
excluded because the code skips them silently and counts the mapping as used (`GrantIgnored`): of such a region it is not true that a container
gets it. `MCTrustedLoader` states, as
an assumption that TLC evaluates (`StableAssumption`), that the instance of `Reload` meets both.

In `ClientImageProofs`, for any images, region and word width:

| Theorem | Says |
|---|---|
| `ImageTypeCorrect` | `[]TypeOK`: also that no address written wraps around |
| `NeverOutside` | `[]WritesInside`: no segment of any image is written outside the region, nor a new value if the image's symbols lie in it |
| `NeverPastFile` | `[]ReadsInside`: neither header nor segment is read past the end of the file |
| `LaidOutAsElfHasIt` | `[]LaidOut`: an accepted image is in the region as its segments and symbol patches say, whatever was there before |

In `VmLayoutProofs` and `TrampolineProofs`, for any configuration, page size and number of addresses:

| Theorem | Says |
|---|---|
| `NeighboursAreEnough` | `[]AcceptsExactlyValid`: the generator accepts a configuration if and only if all pairs of its regions are disjoint, and the rest is in order |
| `HandoverTypeCorrect` | `[]TypeOK`: also that no range that is zeroed wraps around |
| `WipeIsHarmless` | `[]WipeSparesTheRest`: neither the zeroing nor the backup call overwrites the trampoline or the container's program, if the IPC buffer's page is in none of their regions |
| `NothingOfLoaderLeft` | `[]LoaderErased` |

In `CapSpaceProofs`, for any regions, addresses and delegated channels (up to 64 channel numbers, as many as fit between the ranges):

| Theorem | Says |
|---|---|
| `CapTypeCorrect` | `[]TypeOK`: also that no page's capability comes into the Microkit CNode |
| `EachSlotItsOwn` | `[]SlotsAreTheirOwn` |
| `UsedIsWhole` | `[]UsedRegionsAreWhole` |
| `RefusedCallsLeaveRoom` | `[]CallsCanBeRepeated` |
| `ServiceImplemented` | `Spec => CS!Spec`: the operations implement `CapService` |

In `RequestPageProofs`, for any requests, page length and word width:

| Theorem | Says |
|---|---|
| `RequestTypeCorrect` | `[]TypeOK` |
| `RequestReadsInPage` | `[]ReadsInPage`: no count that passes the check makes the loader read past the page |
| `RequestReadAsAsked` | `[]RequestArrives`: with an honest header what is read is what was asked for, whatever was in the page |

`OnlyDelegated` is not inductive by itself: a step of restoration may copy what the *state* array
says, so `DelegationInv` adds that from activation to the wipe the metadata page is the
delegator record, and that a counted mapping points to an entry of
kind memory. `ContextTracksCaps` speaks of the page before the wipe and of the
saved copy after it; its invariant `TrackingInv` also says that after the backup and
before the wipe the two copies agree, that a wiped page is a zero
page, and, for the restoration, which elements the loop has passed and
therefore are no longer `ALLOWED` or `KEEP` — what the bitmaps of `ClientToldOfHeld` are computed from.

`KeptAcrossReload` needs no assumption about the monitor. Its invariant `ReadInv` says that each
channel that population has read is `ALLOWED` or `KEEP`, and that at revocation this is all of the list; so what
revocation takes, the `USED` channels, is not listed. `OnlyRevocationTakes` adds that no other step takes a channel away.

`GrantedExactly` rests on two more invariants. `PageInv`: as long as the header is one that the loader accepts, the page holds the
request that was encoded last, whole, and its header counts it; what `EncodedEntries` proves about `Encode` (five lists, one after the other)
then says what an entry that is read can be. `GrantInv` says, of each channel, what its state tells of the request (`RightInv`): outside
an attempt it is `USED` or `UNSET`; population sets apart (`ALLOWED` or `KEEP`) exactly those that the entries read so far list; after
revocation no other is in use; after restoration `USED` means requested. It needs two things that look unrelated: an `ALLOWED` channel is
never held, and no attempt fails between population and deprivileging, for which the grant must be there and each entry find room
(`Room`). Both are false without `DiligentMonitor`: an entry that is refused half way leaves `ALLOWED` states that no request lists.
With `ContextTracksCaps`, `USED` means held, and so held means requested.

The refinement of `LeastPrivilege` maps serialising a request to `Ask`, revocation to `Drop`, each copied capability to `Grant`, the
last step of the trampoline to `Run` and stopping a container to `Stop`; every other step, faults included, is a stutter. `RevokeRefines` shows that what revocation leaves is
held and requested, `CopyRefines` that at a copy nothing unwanted is held any more.

`RequestedRegionsMapped` needs less of the monitor: its invariant `MapInv` follows the mapping counter instead. `RegionsAsked` places the regions
at the end of the encoded list, so that `RegionsRead` says how many were counted so far. Index `j` of the mapping arrays always stands for the same
region (`Region(j)`), and a state that is `USED` or `KEEP` in either copy of the context, however old, is true of it (`StatesAreTrue`), also
while no request lists it: every entry below the counter was just read and is therefore `ALLOWED` or `KEEP`, so that revocation
finds no region to unmap (`NoneRevocable`; this is what `StaleRegion` shows from the other side). `MappingsTracked` adds the
converse, `FoundInv`: each mapped region is in use at some index. It needs that no attempt ends with states that are `KEEP`, which the next
one would turn into `ALLOWED`; that is so under `DiligentMonitor` by the same lemma (`NothingInTheWay`) on which `StopsForCause` rests.

The image's invariant `LoadInv` carries the check of the program-header table through the segment
loop, and says that until the symbols are patched everything written lies in the region. `SegmentFits` is
its core: under the checks in the order of the code no subtraction wraps around, so that they mean
what they say about sums that might. For `LaidOut`, `ClientImageProofs!LayoutInv` says what each word holds
while the loops are under way: a byte of the last segment passed that covers it, or the patch of the last symbol passed, or what an
earlier attempt left. `SegmentsGrow` and `SymbolsGrow` are the steps of the loops: the last of the segments that cover a word changes only when
one that covers it is passed.

The invariant `LayoutInv` of the generator says that the second loop goes upwards (`PassedInv`: a region already passed
starts no later than one to come, and all but the last passed end before the last one starts), from which
disjointness of all pairs follows step by step. On it rests the trampoline's `RunInv`: what must be spared
is as it was, what had its turn is zero; `SpansDisjoint` makes the wipe of one region leave
the others alone.

`CapSpace`'s invariants come in layers. `OwnInv` (types and `SlotsAreTheirOwn`) is inductive by itself. `PlacedInv` says of each
page that it is mapped nowhere and its address empty, or that it is mapped there: without it, unmapping one region could take the page of
another, and a page left by a refused call could be in the way of a later one (`CallsCanBeRepeated` follows from it). On both and `UsedInv`
the refinement rests: a step that maps or unmaps changes what one region can reach, since the addresses of regions are disjoint.

In `RequestPageProofs`, `EncodeInv` keeps the place and length of the request within their bounds while it is serialised, and
`HeaderInv` says that the header's offset is zero or one of `Bases`, and that a loader which reads has accepted it: so the last entry ends
within the page. `SentInv` says that the entries serialised so far are in the page, as far as there is room for them; `ArriveInv` that
the entries read so far are a prefix of the request.

The library's fact about least elements takes an operator, which the provers cannot
instantiate; it is replaced by the lemma `LeastNumber` of `NumberProofs`, from which `FindResourceFinds`
follows (the search of the delegator record returns an entry that matches).

Model-checked only: the liveness properties `LoadSettles`, `GoodLoadRuns` and `HandoverEnds`. They rest on weak fairness,
that is on ENABLED, which is out of the prover's reach. `StopsForCause` is the safety half of `GoodLoadRuns`: with it, an
attempt that ends and has no fault of its own has ended in the container. Every other property of a passing run is also a theorem.

## 5. Where comments and code disagree

Each is a run that finds a counterexample to the comment.

* `StaleRegion`: `mktxlo_context_activate` zeroes `mapping_count` before revocation walks the
  list of mappings, so that a region of the last container past the new list stays
  `USED` and mapped; the comment of `mktxlo_revoke_caps` says "once finished, all USED are UNSET".
* `KeptRegion`: a mapping's state is that of the same *index* of the last round, so another
  region at that index is "kept" and never mapped.
* `ListedTwice`: a right in use that is listed twice goes `USED`, `KEEP`, `ALLOWED`, and is then copied
  onto its own occupied slot, which crashes the PD.
* `AbandonedRequest`: the states of a population that failed stay, and the next request grants them; and I/O ports, which
  are never revoked or restored, stay allowed in all later rounds.

So the positive properties are stated where they hold: `RequestedRegionsMapped` and `MappingsTracked` for requests that agree on the
region of each place and page slots in range, `GoodLoadRuns` for requests without duplicates,
`GrantedExactly` for requests that populate without a failed assertion,
`ClientToldOfHeld` for channels below the sign bit of an `int` (the loader shifts
`1 << i` up to channel 61), `UsedRegionsAreWhole` for regions whose first page slot is in range, `WritesInside` for
images whose symbols lie in the region, and `WipeSparesTheRest` where the IPC buffer's page is apart.

That a container is also told of channels that the bytes of the delegator record happen to set (`ToldAlways`) is no
disagreement with a comment, and therefore part of `ClientToldOfHeld` instead of a run of its own.

Some hazards of `PROJECT.json` have no property, because the code does there what no property of ours could call right, and nothing in
the source says what is: the overrun of the request page by a request that is too long, channel numbers whose shift
sets other bits or none, page slots out of range that are skipped, and the bits of `ToldAlways`. The actions
(`EncodeEntry`, `ShiftOutcomes`, `GrantIgnored`, `RestoreMappingMaps`, `LoadPayloads`) do what the code does.

## 6. Plan

1. Done: `Xrt`, `InfoPage`, `TrustedLoader`, `LeastPrivilege` and their proofs: the core.
2. Done: `ClientImage` and its proofs: segments, their checks and the symbol patches.
3. Done: `VmLayout`, `Trampoline` and their proofs: what the wipe erases and spares.
4. Done: `CapSpace`, `CapService` and their proofs: slots, pages and the service that the core relies on.
5. Done: `RequestPage` and its proofs: encoding and parsing of the request page.
6. Done: `LeastPrivilegeProofs`: what a container is granted and has mapped, what the context knows of it, and the refinement of `LeastPrivilege`; `LaidOut` in
   `ClientImageProofs`.
7. Open: that `TrustedLoader` loads as `ClientImage` says (one step of the former stands for a run of the latter) is by reading only.

Not modelled, and not planned: `memory.c` (byte loops without state; their effect is in the actions that call them),
debug output, `tsldr_miscutil_find_section_from_elf` and `tsldr_miscutil_fetch_elf_section_with_vaddr` (nothing calls them),
the loops for a build without `CONFIG_BATCHING_MAP` (which `txloxrt.h` defines; without it `xrt.c:142` would use an undeclared
`page_size`), the page-by-page branches of `cap.c` (which stop at an `#error`), constants of the ELF format, build files.
