# Verification of boox-boot-tool

`boox` roots, unlocks, backs up and rescues BOOX tablets over Qualcomm EDL. A
wrong or half-finished write can leave a tablet that does not start, so the
program is built around a safety core: every partition write is classified,
authorised by a token, verified, announced in a journal, read back, and rolled
back if it landed wrong. This directory models that core, and the commands around it, in
TLA+, checks them with TLC, and proves with TLAPS the safety properties of every state machine
and of the readers of tables, images and payloads, and that the core implements its abstract
promise.

Paths below are relative to `src/boox/` unless they say otherwise.

## 1. The system: inventory

One process runs one command (`boox backup`, `root prepare`, `root apply`,
`unlock`, `rescue ...`, `doctor`, ...) and ends. There are no threads and no
callbacks; what is concurrent is the process against the things that outlive
it: the device's flash, the journal and the other files of the workspace, and
the owner, who may kill the process, pull the cable, let the tablet update
itself between two commands, or start the next command on what the last one
left behind.

| Component | State | Operations | Interacts with | What makes it correct |
|---|---|---|---|---|
| Tiers `safety/tiers.py` | none | `base_name`, `classify` | asked by the session | a profile can only raise a tier; an unknown name is CATASTROPHIC |
| Journal `safety/journal.py` | an append-only file of JSON lines | `begin`, `finish`, `records`, `entries`, `unfinished`, `is_clean` | written by session and preflight, read by preflight and rescue | a record that reached the disk stays; an interrupted operation is reported by the next process |
| Session `safety/session.py` | identity and table caches; the operation under way; `WriteToken` | `read_twice`, `write`, `_rollback`, `erase`, `reset` | backend, journal, verifier reports, backups | intent before bytes; no bytes without authority; what the journal says was done is on the device |
| Preflight `safety/preflight.py` | `PreflightResult` | `run` | session, journal, backup; issues the token | a token means a proven read and write path, a clean journal, and a backup |
| Verifier `safety/verify.py` | none (`Report`) | `verify_candidate`, `override` | asked by root, unlock, restore | an image from another device or build is refused |
| Backups `safety/backup.py` | image files and `manifest.json` | `create`, `latest`, `verify`, `require_intact`, `restore` | session, verifier | a backup that verifies was transferred correctly, and belongs to this tablet |
| Context `ops/context.py` | caches of adb properties, session, backend | `session`, `enter_edl`, `latest_backup`, `golden`, `references` | wires everything | references are images of this device |
| Rooting `ops/root.py` | `root-state.json`, staged files on the tablet | `prepare`, `apply` | everything above, adb | writes a patched image to the active slot, and nothing else |
| Unlock `ops/unlock.py` | none | `run` | preflight, session | bootloader pieces are written only after a typed confirmation |
| Rescue `ops/rescue.py` | none | `diagnose`, `restore`, `restore_misc`, `unroot` | backups, session, journal | puts stock bytes back, also on a device preflight cannot pass on |
| Stock firmware `firmware/golden.py`, `keys.py`, `onyx_api.py` | `golden.json` and images | `acquire`, `load`, `reference` | verifier, rescue | images and manifest belong to one firmware |
| Payload, protobuf, UPX `firmware/*.py` | none | `extract`, varints, `decompress` | stock firmware | outputs are the described bytes |
| Image formats `imaging/*.py` | none | parse boot images, GPT, ramdisk, AVB | verifier, root | tables inside bounds; slots resolved explicitly |
| Backends `transport/edl.py`, `mock.py`, `proc.py` | `TemblastBackend._loaded`, the simulated flash | read, write, erase, identify, reset | session | every call ends (a timeout) |
| Identity `transport/sahara.py` | none | `identify`, `mismatch` | session, verifier, backups | images of one tablet never reach another |
| adb `transport/adb.py` | none | shell, push, pull, reboot | root, debloat, harden | - |
| Debloat, Harden `ops/*.py` | packages and settings in Android | disable, restore | adb | what was disabled can be restored |
| Profiles, CLI, TUI, console, utilities | static configuration, input and output | - | - | - |

The hard behaviours are these, and `PROJECT.json` lists each of them under
"hazards" with its line:

* **crash and recovery**: a death inside an append, between intent and bytes, in
  a transfer, in a rollback; a death while a manifest or a plan is written;
* **partial failure**: a backend that raises half way, a rollback that fails,
  two slots of which one was written;
* **unreliable transfer**: reads that are truncated or damaged, and the one
  read-back that decides between "done" and "roll back";
* **stale state**: a backup older than the partition's last write; a plan, a
  slot or a reference chosen in one command and used in a later one; cached
  identity; a token that expires between two writes;
* **order**: the round trip before the backup check, checks that are noted but
  do not stop a run.

## 2. Modules

```
Tiers   Images   Journal   Identity      operators: classification, transfers, log, identities
   \      |      /          |     \
    DeviceSession        Unlock   Verifier    state machines (Verifier also uses Tiers)
         |                  |         |
   SessionProps -- WriteAhead    VerifierProps -- Imaging_proofs
    |    \       (abstract)   \
    |     Preflight       UnlockProps -- Unlock_proofs
    |         \
    |     PreflightProps
    |          \
   DeviceSession_proofs -- Preflight_proofs

   Rooting  -- RootingProps  -- Rooting_proofs     commands over backups, plan, slots
   Bundles  -- BundlesProps  -- Bundles_proofs     directories of images and their manifests
   Wizard   -- WizardProps   -- Wizard_proofs      one long process and its caches
   Packages -- PackagesProps -- Packages_proofs    lists of packages turned off and on
   Tables, BootLayout, PayloadImage -- Formats -- FormatsProps     pure algorithms,
                                             \-- Imaging_proofs   proved beside the verifier
   MCDeviceSession, MCPreflight, MC...             small instances for TLC
```

`Preflight` extends `SessionProps`, so that the session's properties are stated again over the
composition, and `Preflight_proofs` uses the lemmas of `DeviceSession_proofs` for the steps the two
share.

The state machines look at one program from different distances. `DeviceSession` is inside
one write; `Preflight` adds what comes before the token; `Rooting`, `Unlock` and `Wizard` take a
write as one step with the outcomes `DeviceSession` has, and follow whole commands: `Rooting`
the two processes of a root and what they hand on, `Unlock` a sequence of writes with more
than one tablet on the desk, `Wizard` one process that lives through many stages.
`Verifier` is what every write is asked about, `Bundles` where the images come from.

**Tiers** translates `classify` and the name tables. A partition is a record of
base name and slot suffix, so `base_name` is an update of one field.

**Images** is the model of flash and of transfers. A partition has a head and a
tail block. An image may stop before the tail (`Absent`): Magisk images are
shorter than the partition. `Landed` is what a write that reported success may
leave: the image, the image padded with zeroes (what `transport/mock.py` does;
a real device keeps the old tail), or wrong bytes in either block. `Interrupted`
is what a write that raised or was killed may leave. `ReadsOf` is what a read
may return: the partition, a prefix of it, a damaged copy. `Matches` is
`_matches`, truncation and zero padding included.

**Journal** models the file as a sequence of lines and keeps one thing a list of
records would lose: whether the last newline reached the disk. `_append` opens
with `"a"`, so the next record continues an unterminated line, and
`records()` skips what does not decode.

**DeviceSession** is the state machine. Variables: `device` (flash), `log`
(journal) and `ids` survive a process; `stage`, `cur` (the entry under way),
`dry` and `token` die with it. One action for each stretch of `write`,
`_rollback` and `erase` between two points where a death leaves something
different:

| code | actions |
|---|---|
| `write` 183-211 | `BeginWrite` (all refusals, then the intent append) |
| `write` 213-216 | `DryRunDone` |
| `write` 218-223 | `BackendWrite`, `BackendRaises` |
| `write` 225-251 | `ReadBackMatches`, `ReadBackDiffers`, `ReadBackRaises` |
| `_rollback` | `RollbackWrite`, `RollbackWriteRaises`, `RollbackVerified`, `RollbackUnverified` |
| `erase` | `BeginErase`, `BackendErase` (and `BackendRaises`) |
| a new process, its end, its death | `Start`, `Die`, and the dying branch of `Record` |
| where tokens come from | `GrantToken`, `GrantRescueToken`, `TokenExpires` |

`Request` lets the caller hand in any source, any backup and any verifier
report, also one made for another partition or on another image (or on this file before it
changed): the session's own checks are what is under test, and it asks a report only
whether it passed and for which partition. Stand-alone, tokens appear from nowhere (`GrantToken`);
`Preflight` replaces that by what really issues them.

**Preflight** composes the session with `preflight.run()`, `unlock`'s confirmation
and `rescue`'s home-made token. The identity, HWID and table checks are one
nondeterministic verdict, since nothing they compute is used afterwards;
the order of `journal_clean`, the two reads, the round trip, the backup check
and the token is kept. The round trip goes to the backend directly and not
through `DeviceSession.write`, and so do the actions `Roundtrip...`.

**WriteAhead** is the abstract promise: a partition changes only while an
operation on it is open; an operation closes as settled, and then the partition
carries one of the images the operation named, or as suspect. It knows no
journal, no process and no token. `SessionProps!ImplementsPromise` maps the log to
the three marks.

**Rooting** looks from further away: commands of many processes, one after the
other, and what they leave each other. Of the device it keeps the ramdisk-carrying
partition of each slot (`flash`), the slot Android runs from or "edl" (`up`) and
the slot that starts next (`boots`); of the workspace the `backups`, each with the images of its files and whether they have the sums of
its manifest (`intact`, `altered`, `torn`), the one touched last (`newest`), the stock firmware (`golden`, a build
of this device or `Foreign`: `--model` and `--upx` take any), the `plan` that prepare leaves to apply, and
whether the journal is `clean`. `boox backup --dest` may name a directory that holds a backup: `Put`
then replaces it, and `CreateStops` leaves some new images under the old manifest. A write is
one step with the outcomes `DeviceSession` has: it landed (`Write`), it raised, was
rolled back or the rollback failed (`WriteFails`), or the process died in it
(`WriteDies`).

| code | actions |
|---|---|
| `cli.cmd_backup`, `backup.create` | `BackupBegin`, `Create`, `CreateTorn`, `CreateStops` |
| `root.prepare` | `PrepareBegin`, `PrepareReuse`, `PrepareReuseRefused`, `Create`, `Stage`, `WritePlan` |
| `root.apply` | `ApplyBegin`, `ApplyRefused`, `PreflightDies`, `Write`, `WriteFails`, `WriteDies`, `Finish` |
| `cli.cmd_unroot`, `rescue.restore` | `Unroot`, `UnrootUnslotted`, `Rescue`, and the writes |
| any error or death between steps | `Stops` |
| `cli.cmd_firmware_fetch` | `FetchFirmware` |
| Android, the owner (external) | `Update`, `OwnerRestarts` |

An image is its kernel, which tells build and model, and the state of its
ramdisk; `Verified` is `verify_candidate` on these two, with the references that
`Context.references` collects at that moment. apply is offered any file of
`Files`. A slot that cannot start leaves the device in EDL; that a bootloader may fall
back to the other slot by itself is not modelled. An image of another model is taken not to start. A
directory named by `--dest` is taken to be one of the workspace's: a backup elsewhere is found by neither
`latest_backup` nor prepare, and only `rescue restore --backup` could name it. Where the sums of an altered directory did not match, they may
match again once more of its files are replaced (`Altered`).

**Identity** has the four fields a tablet may report, any of them unknown, and
`mismatch`: serials decide when both are known, hashes are compared over their
common length, and fields that one side lacks are not compared.

**Verifier** is `verify_candidate` with every check, over abstract images: size, magic,
whether the parser finds its sections, kernel, header, ramdisk (listable, raw, closed) and
the remaining bytes. `Provenance` tries the references one after the other, `DerivedFrom` compares
kernels, or, where there is none, headers and ramdisk names with the threshold of
60 %. The report is the set of fatal checks that failed and those
acknowledged by `override`. `Verify` and `Override` are its two actions.

**Bundles** fills the two directories of images:

| code | actions |
|---|---|
| `golden.acquire`, `onyx_api.download`, `upx`, `payload.extract` | `FetchBegin`, `FetchFromFile`, `Download`, `DownloadStops`, `Unpack`, `PackageCorrupt`, `NothingFull`, `Fill`, `FillStops`, `Filled`, `Record`, `RecordStops`, `Finish` |
| `backup.create`, also with `--dest` into an old directory | `BackupBegin`, `Fill`, `FillStops`, `Filled`, `Record`, `RecordStops`, `Finish` |
| `rescue.restore` | `RestoreBackup`, `RestoreGolden` (through `RestoreFrom`) |
| the server, the tablet (external) | `Publish`, `TabletUpdates` |

A version stands for the bytes of an image and for its hash. The manifest is compared
where the code compares it (`Backup.verify`) and trusted where the code trusts it
(`GoldenFirmware.image`). A torn image passes the verifier if it has a
format the verifier does not parse (`Spoilt`).

**Unlock** has the flash of each tablet (the bootloaders of both slots, `frp`,
`devinfo`), the backups with the identity and the integrity of each, and the command
under way with its remaining steps. `UnlockBegin` is `run` up to the token, `Confirm` the typed
phrase, `Write` and `Erase` the steps, `StepFails` and `StepDies` their failures, `Finish` the restart;
`RescueBegin` is `rescue.restore` with its token; `TakeBackup` is `boox backup`, into a new directory or, with
`--dest`, into one that holds a backup, and `FilesChange` one that stops before its manifest is written, or a
hand that alters files; `Swap` and `ForceEdl` are the owner.
An identity is drawn anew from `Reports` for each command, because the EDL tools print different
subsets of the fields.

**Wizard** keeps what outlives a stage: the `Context` with its adb properties, the identity of
the session, `_loaded` of the Temblast backend; and what outlives the process: backups,
plan, and the mode, loader and slot of each tablet. A stage is the
sequence of what it asks of them (`StepsOf`), in the order of the code: `backup.create` reads before it asks for
the identity, prepare and apply ask first. Each element has its action, and a stage may
fail or the process die before any of them. `Learn` is the session's identity: which tablet, no more than its
model (a tool that prints no serial), or nothing (Temblast, once it has the loader, parses an empty text), and `Agree`
is `mismatch` on these. `Wait` is `_wait_for_adb`, which leaves fresh properties in the cache; `Pull` collects over adb what
Magisk made. The tablets are of one model. A wizard that quits
after each stage stands for `boox backup`, `root prepare --skip-backup` and `root apply`. The histories `met`, `kept`,
`of` and `true` record what the properties speak of and are read by no guard.

**Packages** is `debloat`: a list taken once, worked through package by package
in any order, with refusals, an adb that times out in the middle, and an owner who turns packages on and off
meanwhile. `mine` is history: what the tool turned off and nobody turned on since.

**Tables**, **BootLayout** and **PayloadImage** are pure: partition tables from their three
sources and the choice of a partition (`gpt.py`, `edl.py`, `choose_target`, `unroot`); where the
sections of boot and vendor_boot images lie (`bootimg.py`); extraction over extents and the
protobuf reader (`payload.py`, `protobuf.py`). **Formats** looks at one input of any kind. A table is a
function on the places its partitions had where it was read, so that skipping an unused or an empty entry is a
smaller domain. A loop is a recursive function of the number of rounds: `OffsetAfter`
(the sections of an image), `BlocksOf`, `Filled` and `Written` (extents and operations of a payload), `Reading`
and `Rounds` (digits of a varint, fields of a message). What a loop leaves behind is its value at the last round.
The constants `Disks`, `Headers`, `Payloads`, `Messages` are whatever is to be looked at; `FormatsAssumption`
asks only that they have the shape that the byte layouts give them (`AllDisks`, `AllHeaders`, `AllPayloads`,
`AllMessages`: unsigned fields, any number of entries, operations and bytes).

**Slips.** A definition whose name ends in `Slip` (and `PrepareReuseUnchecked`) is a
deliberately wrong variant of the definition after it: a forgotten guard, a
read-back that is not compared, a record that never reaches the disk. They are
not part of any specification; `PROJECT.json` pairs each with the property that
must notice it when it takes the right definition's place.

## 3. Runs

| run | asks | bounds |
|---|---|---|
| `session` | type, `JournalExplainsDevice`, `IntentsAreVouchedFor`, `IntentBeforeBytes`, `EarlierRecordsSurvive`, `BytesNeedAuthority`, and `EveryIntentAnswered` under `FairSpec` | 2 operations, a SAFE and a CATASTROPHIC partition and one no image passes for, 3 sources with reports on any of them, torn appends |
| `preflight` | the session's journal invariant again, `TokenMeansProven`, `TokenMeansCleanJournal`, `UnprovenTouchesRoundtripOnly` | 2 operations (a round trip and a write, or two processes) on a bootloader and `misc`, torn appends |
| `preflight_promise` | refinement of `WriteAhead` by session and preflight together | 2 operations on `boot` and `misc`, appends whole |
| `rooting` | type, `NeverForeign`, `OneSlotStarts` | 2 builds, 1 backup directory, updates, files of a build, of another model and a stock one, firmware of a build and of another model |
| `rooting_backups` | `SomethingToGoBackTo`, `PlanStands` | 1 build, 2 backup directories |
| `verifier` | `KernelVouched`, `BootKeepsAKernel`, `MoreTrustNeverRefuses`, `StockIsSeen` | 21 images, 7 targets, every set of up to 2 references of the boot family, 5 bindings |
| `bundles` | `IntactMeansOneRun`, `PackageIsWhole`, `AppearsComplete`, `RestoresOneMoment` | 2 images (one without a parsed format), 2 releases, 3 states backed up |
| `unlock` | `NeverAnotherTablets`, `StockIsKept`, `NeverRestartsInDoubt` | 2 tablets, 2 backup directories, 2 commands, tablets exchanged between commands |
| `wizard` | `BackupKnowsItsTablet`, `SlotIsTrue`, `AppliesWhereItBelongs` | 2 tablets, 2 slots, both under symmetry, 2 backups, 2 exchanges, 1 update |
| `packages` | `ProtectedStay`, `RestoreAllUndoesTiers`, and `CommandsEnd` | a package of each of 2 tiers, a protected one, one of no list |
| `formats` | `SourcesAgree`, `CutTableOnlyLoses`, `NeverTheWrongSlot`, `SectionsApart`, `ExtractsWhatItSays`, `CutMessageOnlyLoses` | tables of 1 to 3 entries, headers of every version, payloads of up to 2 operations of up to 2 extents, messages of up to 6 bytes |
| `verifier_restore` | `WhatWasThereGoesBack`, which the code does not keep, see section 5 | as `verifier` |

Why the bounds are enough. `MaxOps` bounds the operations ever begun, not the
number of processes or of deaths, which are unbounded. Every property speaks
of one partition, its last operation and the outcome of that, so two
operations give every pair of "what was left behind" and "what came after".
Two partitions, one SAFE and one CATASTROPHIC, make the target of a
report, the tier of a write and "the other partition is left alone" matter; a third, for which no image passes,
tells a report that is asked for its target from one that is not.
Two blocks are enough to tell a short image from a full one, a partial write
from a complete one, and a truncated read from a whole one; `_matches` and
`Overlay` look no further than "inside the image" and "after it". In the
proofs the partitions, sources, backups, blocks and operations are arbitrary.

In `Rooting` the commands, deaths, restarts and backups taken are unbounded; `MaxBackups` bounds
the directories they are in. Its two runs divide the questions: where an image comes
from, and which slot is left, needs two builds and updates, so that the latest backup, the stock firmware
and the two slots disagree, firmware of another model, and one directory; what backups promise to each other
needs two directories (a good one before a damaged, partial or torn one, or after it, or under
it) and one build.

`Bundles` bounds the states of the tablet ever backed up and the releases, not the runs: with two
releases and three moments an older run, a torn one and a newer one meet in one directory.
In `Unlock` two commands are an unlock and a rescue from a backup of before or after it, two
unlocks, or commands on two tablets, with any backups between; a
plan writes the bootloader of slot a and erases devinfo. The FRP blob is one more write like the first and is left to the
proofs, which are for any plans, orders and number of commands. `SwapsMidway` is FALSE: nothing in the
code looks at the tablet again between two writes (section 5). In `Wizard` stages, failures,
restarts and processes are unbounded. No definition tells one tablet, or one slot, from another, so the run may take them as
symmetric. In `Formats` a sector is `Small` or
`Long`, two or eight units, and a page two to four, so that every rounding has inputs on, before and after the boundary.

The idle process may always exit and another start, so none of the state machines
reaches a deadlock, and TLC checks that; only `formats` (one look at one input) and the two runs of
`Verifier` (one call) end after their last step and say `CHECK_DEADLOCK FALSE`.

The variables' types are stated beside them (`BTypeOK`, `UTypeOK`, `PTypeOK`, `KTypeOK`).
`TypeOK` and `RTypeOK` are part of runs; all of them are
part of the inductive invariants of section 4, and so is what the proofs of `Wizard` need of its types
(`WType`). The runs spend their properties on the rest.

**Fairness.** `FairSpec` adds weak fairness of `Progress` only: the steps a process
takes by itself once an intent is on disk. The program is sequential and every
backend call runs under a timeout (`transport/proc.py:46-73`), so such a step either
happens, raises, or the process dies; all three are actions. Nothing is assumed
of the owner: no process is ever guaranteed to start, and no request to come. `KSpec` of
`Packages` has weak fairness of `JobStep`, for the same reason: the package manager answers, or adb times
out. That a command dies is possible and not fair.

## 4. What is proved

Every theorem holds for all values of the constants that the named assumptions of the modules
allow; these say only what sets the constants are in and that sentinels differ from
values. Where a theorem needs more, it says so as a hypothesis, named below. Each proof has the
same form: an inductive invariant that the initial states satisfy, one step for each action that
it survives, and the property as a consequence of it, or, for an action property, one case for each
action that could break it.

| module | theorem | states |
|---|---|---|
| `DeviceSession_proofs` | `TypeCorrect`, `JournalExplains`, `IntentsVouched` | `TypeOK`, `JournalExplainsDevice`, `IntentsAreVouchedFor` |
| | `IntentFirst`, `EarlierRecords`, `Authority` | `IntentBeforeBytes`, `EarlierRecordsSurvive`, `BytesNeedAuthority` |
| | `SessionKeepsThePromise` (if `~CanTear`) | `ImplementsPromise` |
| `Preflight_proofs` | `PreflightKeepsTheJournalTrue`, `TokensAreProven`, `TokensFindACleanJournal`, `UnprovenTouches` | `JournalExplainsDevice`, `TokenMeansProven`, `TokenMeansCleanJournal`, `UnprovenTouchesRoundtripOnly` |
| | `PreflightVouches`, `PreflightOnlyAppends` | `IntentsAreVouchedFor`, `EarlierRecordsSurvive` |
| | `TouchesAreProven` | `ProvenTouches` (stated there, checked by no run) |
| | `PreflightKeepsThePromise` (if `~CanTear`) | `ImplementsPromise` |
| `Rooting_proofs` | `RootingTyped`, `OwnImagesOnly`, `AlwaysAWayBack`, `PlansStand` | `RTypeOK`, `NeverForeign`, `SomethingToGoBackTo`, `PlanStands` |
| | `OneSlotLeft` | `OneSlotStarts` |
| `Unlock_proofs` | `OwnBytesOnly`, `StockStaysInABackup`, `RestartsInNoDoubt` (if `~SwapsMidway`, `SerialsDiffer`) | `NeverAnotherTablets`, `StockIsKept`, `NeverRestartsInDoubt` |
| `Wizard_proofs` | `ManifestsNameTheTablet`, `PlansNameTheSlot`, `ApplyOnTheRightTablet` | `BackupKnowsItsTablet`, `SlotIsTrue`, `AppliesWhereItBelongs` |
| `Bundles_proofs` | `IntactIsOneRun`, `FirstManifestIsWhole`, `RestoreIsOneMoment` | `IntactMeansOneRun`, `AppearsComplete`, `RestoresOneMoment` |
| | `PackagesCameWhole` (if `Md5`) | `PackageIsWhole` |
| `Imaging_proofs` | `NoForeignKernel`, `KernelKept`, `TrustIsMonotone`, `StockNeverPasses` | `KernelVouched`, `BootKeepsAKernel`, `MoreTrustNeverRefuses`, `StockIsSeen` |
| | `CutsOnlyLose`, `SourcesDoAgree`, `SlotsKept` | `CutTableOnlyLoses`, `SourcesAgree`, `NeverTheWrongSlot` |
| | `SectionsNeverMeet`, `ExtractsRight`, `CutsOnlyLoseFields` | `SectionsApart`, `ExtractsWhatItSays`, `CutMessageOnlyLoses` |
| | `ParseReadsAll` | (of `Parse`: every message that parses was read to its end) |
| `Packages_proofs` | `PackagesTyped`, `NoneProtected`, `TiersComeBack` | `KTypeOK`, `ProtectedStay`, `RestoreAllUndoesTiers` |

**The session.** The inductive invariant is `IInv == TypeOK /\ CurOK /\ LogOK /\ JournalExplainsDevice`.
`JournalExplainsDevice` alone is not inductive: the step that writes "done" must
know that the entry in memory is the last unanswered intent of its partition on
disk, that it names a backup, and that the device carries the image when the
read-back matched; `CurOK` says this of `cur` and `stage`. That the fold by id
answers the right intent needs ids never to repeat and to grow along the log,
and the record of an id to be an intent first: `LogOK`. Torn appends are
handled by `Damaged(log)`: once a line is illegible it stays so (`AppendOnly`), and
the properties that read the log are weakened from there on, which is what
the code can keep. The action properties follow from `IInv` and one case for each
action.

**The promise.** `SessionKeepsThePromise` is the refinement of `WriteAhead`. The mapping
reads the three marks from the log, so each proof step is about what one more line does to them
(`IntentOpens`, `OutcomeSettles`): an intent opens its partition and names the images that may end
there, an outcome settles it or leaves it suspect, bytes move while it is open, and everything else
stutters (`StepKeepsPromise`). That an outcome may settle at all is the hard part, and
comes from `IInv`: the partition carries an image that the intent named. The hypothesis `~CanTear`
gives `WholeLog`, that no append was cut short so far. It cannot be dropped: after a torn
intent the mapping does not see the operation, and the abstract device must not
move (section 5, first item). `preflight_promise` checks with the same value.

**Preflight.** `PInv == PTypeOK /\ IInv /\ ChecksOK /\ ProvenOK /\ CleanOK` keeps the session's
invariant through steps that are not the session's. The round trip writes past `DeviceSession.write`,
so its intent has to satisfy what the session's intents do: `ChecksOK` says that `cur` is then a
round trip of the configured partition whose source is the image just read. `ProvenOK` carries the answered
round trip from the moment it is recorded to the token, `CleanOK` what `journal_clean`
found from the check to the last write, in which the operation under way is the only open one. Each step
of the composition appends one line or none (`PStepAppends`), and so what vouches for an intent, and earlier
records, stand as they do for the session alone. `BytesNeedAuthority` does not: the round trip needs no token, and
`UnprovenTouches` and `TouchesAreProven` say what is true instead, and between them speak of every byte that
any process changes: without a token it is the round trip, under its intent and outside dry runs; with one, it is the
session's, under an intent with a backup, with the typed confirmation if the partition is CATASTROPHIC, and
after a round trip that is on record if the token is a preflight's. The refinement is proved again over `PSpec`, with the session's lemmas for the session's steps.

`IntentsAreVouchedFor` says what `DeviceSession.write` makes sure of and no more: a report that passed on some
image for that partition. That it was made on the image that is written is left to the callers.

**Rooting.** `RInv == RTypeOK /\ DirsOK /\ JobOK`: backups and plan are where they are said to be, and what a command
under way knows. It says of a command that writes (`WritingOK`) that its images and the copies it rolls
back to are of another model only if the tool holds an image of that model (`Native`), that there is a backup or
firmware of each slot it could roll back (`Sourced`), and that both slots still start if they did when it began and all its images do
(`InOrder`). Four theorems are about steps. `OwnImagesOnly` follows from `Native`, since what a failed
write leaves is of the old, the new or the backup's kernel or of none. For `AlwaysAWayBack` a slot that a command
writes is one a backup or firmware covers, so its way back is already there and does not
rest on the slot; a new backup into a new directory takes none away, and one of a slot that starts adds one.
`OneSlotLeft` needs that a command whose write failed ends, and does not go on with its next slot. Updates of Android may
come at any time, and stock firmware of any model.

**Unlock.** `UInv == UTypeOK /\ (at # "none" => SentOK) /\ NeverAnotherTablets` with `newest` a directory, and, as long as
every command had two serials to compare, `BackupsOK` and `JobOK`: every backup is of one
tablet and says so, and a command writes what is of the attached tablet or of none, with an intact backup of it.
`StockIsKept` is about steps. It rests on a command refusing an altered backup: what it writes to is covered by
an intact backup of the tablet, so it is not `Untouched` and its stock bytes are `Saved` already, and no
command changes a backup. A new backup of untouched partitions saves them. `SentOK` says that an erased partition was never written by the same
command, which `NeverRestartsInDoubt` needs. Two hypotheses are about the world: `SerialsDiffer`, that
a serial belongs to one tablet, and `~SwapsMidway`, that no tablet is exchanged while a command
runs. What happens without the second is in section 5.

**Wizard.** `WInv` says of each cache how it can be wrong: an identity that names a tablet names one that
this process talked to, and the properties are in the cache until the reboot that `edl`
makes, unless they were `kept` (`CacheOK`). `StageOK` says what the steps of a stage that
are behind it have established for those ahead (`Did`): that it asked for an identity, read from the tablet
attached, compared what it was told with the plan's backup. `Order` says which steps are behind which, from the lists in `StepsOf`.

**Bundles.** `BInv == BTypeOK /\ RunOK /\ ManifestsOK` and that every release is in `taken`. `RunOK` says that all
a run has filled in is of one moment, and is on disk as it is listed, until the manifest is
written; `ManifestsOK` the same of every manifest there. A manifest of an older run over files of a
newer one does not contradict it, and is why `IntactMeansOneRun` asks for `Problems(d) = {}`.
`PackageIsWhole` needs a checksum from the server (`Md5`): without one a download that ends early
leaves a torn package under its final name.

**Verifier.** The invariant `ReportIsOfCall` says that a report is that of the last call and that only
provenance was ever acknowledged; the rest is about what no failing check implies: the image parses, and some
reference that parses too vouches for it (`Vouched`), which adding references
cannot undo. That a stock ramdisk is seen (`StockNeverPasses`) rests on `root_patch_present`, which is not among the checks that can be acknowledged.

**Packages.** `KInv` adds to the types what a command knows of its own list (`JobOK`): a debloat's list has no
protected package left in it, and while everything is restored, what the tool turned off
among the listed packages is still to be dealt with or failed.

**Formats.** Nothing changes here but the choice of the input, so the invariant `SeenOK` only says that the input
is one of the constants'; what remains is what selections and loops compute, for every input. The induction theorems of
the library cannot be used, since they take an operator, but well-foundedness of < on Nat can: `Induct` says that a
*set* of rounds that holds 0, and with every round the next, holds them all, by its least counterexample; `Loop` builds a run of any
loop whose step is given as a *function*, so that the `CHOOSE` behind a recursive definition is known to
choose a solution; `StaysIn` gives its range. With these,
  * `OffsetsAre` and `OffsetsRise`: offsets never fall and each section ends before the next offset, because
    `Align` never shrinks (`AlignUp`); two sections are then separated by an offset between them, and the signature by the last
    one.
  * `LastExtentWins`, `LastOperationWins`: after n rounds, a byte is what the last extent (operation) among the first n that
    covers it put there, or what it was; the invariant of the loop is this disjunction, since it must also say what no
    extent has touched yet. `PieceIs` relates the slices, short ones included, to `Covers`.
  * `FieldsGrow`, `CutRounds`: rounds only append, and whatever a cut message reads as, the whole
    one reads as on the way, because a round looks only at bytes it has checked to be there (`VarintCut`, `TakeCut`, `FieldCut`).
    `ParseReadsAll` adds that the rounds of `Parse`, one for each byte, reach the end of every message that parses, and
    so stand for the `while` of the code.
  * `BinaryIs` says which places of a dump are read and what they hold; where names do not repeat, looking a name up finds
    its one place (`OnlyOne`), and a whole number of sectors in bytes survives the division by 512 (`Multiples`), which is all the
    printed table needs.

Assumed are `TablesAssumption` (a long sector is a whole number of short ones), `PageAssumption`,
`PayloadAssumption` and `FormatsAssumption`. The properties keep their own conditions: names do not repeat, a
disk is read in its own sectors, a header is accepted, the message parses.

**Only model-checked.** `EveryIntentAnswered` and `CommandsEnd` are liveness under fairness, which is not
within reach of the provers used. Every other property of a passing run is stated by a theorem. `IsFull`, the outcome of `decrypt`
and what decompression returns are taken as they are.

## 5. Where the code and its words differ

`verifier_restore` is a run that TLC must find violated. "Fully recoverable" (`SAFETY.md:142`), but
the verifier refuses any image that is all zeroes, so a backup of a partition that was blank (misc, frp) does not
go back, and neither does any partition named after it.

Seen in the models. Where a name is given, a module states the sentence as a formula; put
into the configuration of the module's run, it is violated:

* "every partition write records its intent to disk ... before any bytes reach the
  device": not after a death inside an append; the next intent is glued to the
  torn line and neither decodes (`IntentAlwaysBeforeBytes`).
* `journal_clean` is described as guarding against half-written partitions, but an
  operation recorded as "failed" may have left one (`CleanMeansWhole`).
* An interrupted operation is never marked resolved, so preflight refuses for ever, also after
  the partition was restored and verified (`RestoredIsResolved`).
* The round-trip partition is rewritten before anyone asks for the backup that, says the
  profile schema, must be held before that happens (`RoundtripNeedsBackup`).
* "The active slot only, by default": apply writes the slot that was active when prepare
  ran; after an update that is the other one (`OnlyTheActiveSlot`). A wizard
  that looked at the tablet before an update writes such a plan itself (`PlanNamesTheActiveSlot`); so does one that
  prepares, is left while the tablet updates, and prepares again, since the first prepare ended with fresh
  properties in the cache (`ops/root.py:348`).
* "Put the stock image back": unroot takes the latest backup, also one taken after
  rooting (`UnrootedMeansStock`).
* unroot tells the owner to boot into Android so that the slot can be read, but enters EDL
  before it asks (`SlotIsFound`).
* The token "is bound to the device's identity" (`SAFETY.md:39`): no write compares it with the
  device; of two tablets exchanged during a command the second is written to
  (`TokenBindsTablet`, with `SwapsMidway`). Likewise a wizard that is shown two tablets records the first
  one's identity with the second one's images, and a backup over Temblast records none at all, because
  `backup.create` reads before it asks and what Temblast is told then is empty (`BackupNamesItsTablet`). A
  manifest without identity agrees with every tablet.
* "That restores the original bootloader byte for byte" (`ops/unlock.py:215`) of the latest backup, which may
  have been taken after an earlier unlock (`OriginalComesBack`); "verified backup from this session"
  (`ops/unlock.py:49`) is any backup that is intact.
* "Each checked against the payload manifest's own SHA-256" (`SAFETY.md:51`): a fetch that died
  leaves images of two releases under one manifest, and `load` checks no
  hash (`GoldenIsOneRelease`).
* "The download is corrupt. Fetch the firmware again." (`firmware/payload.py:208`): the next fetch
  takes the same package without looking, if the server gave no checksum (`FetchAgainHelps`, with `Md5`
  FALSE).
* "Bring all back: boox debloat --restore-all" (`ops/debloat.py:137`): not what was named with
  `--package` (`BringAllBack`).

And without a formula: "a verification report that passed" (`safety/session.py:8`) is any that passed
for the partition: nothing ties it to the image that is written (`safety/session.py:187-201`), and it may have been made on another or
before the file changed; `boox backup --dest`
over the directory of the only good backup, or of a plan's, replaces it image by image without
asking (`cli.py:190`); stock firmware fetched with another `--model` or `--upx` is trusted as this device's, and
`rescue --from-golden` writes it as its own reference (`cli.py:213`, `ops/rescue.py:102-111`); a rollback restores the backup the caller passed, which after a second
write is not "its previous contents" (`safety/session.py:246`); "Nothing has been written"
(`safety/preflight.py:59`) is also said after a round-trip write that failed half way; with
`--both-slots` "The device is untouched" (`safety/verify.py:124`) is said of the second image after the
first was written; "The other slot is untouched and still stock" (`ops/root.py:326`) is said without
looking; a torn manifest hides older backups from `--skip-backup` (`ops/root.py:122`); `Context.golden`
means to go on without stock firmware it cannot load (`ops/context.py:167`), but a
`golden.json` torn by a death raises an error it does not catch; a GPT dump that begins
with the header is always read in 512-byte sectors (`imaging/gpt.py:127`), though the function "handles 512- and 4096-byte sectors" (`:116`);
the tablet is sent to EDL before the loader is found to be missing (`cli.py:188`);
a dry run of apply ends in an assertion (`ops/root.py:285`); a `TimeoutError` is no `BooxError`
and ends the wizard.

## 6. Not modelled

Log texts, rendering, argument parsing and prompts; HTTP and key lookup; ciphers,
decompression, and the bytes of cpio, vbmeta and headers; the patterns that find fields in a
tool's output; the loading of profiles. `Harden` sets Android settings one after the other and builds a
zip file; no later step reads what it leaves. `backup.restore`, `PartitionTable.resolve` and
`BootImage.payload_end` are called by nothing under `src/boox` and are not modelled. A read that exits zero without
writing, and so leaves an older file of that name (`transport/edl.py:141`), is a fault of another program.
One process at a time uses a workspace, as the documentation tells the owner; two
at once share every file without a lock, and no property of two would hold.
Sectors and lengths are two blocks in the session's models. `PROJECT.json` gives the
status of every component.

## 7. Plan

1. *(done)* `Tiers`, `Images`, `Journal`, `DeviceSession`, `SessionProps`, `WriteAhead`,
   `DeviceSession_proofs`; `Preflight`, `PreflightProps`; `Rooting`, `RootingProps`.
2. *(done)* `Identity`, `Verifier`, `VerifierProps`, and the proofs about it.
3. *(done)* `Bundles`: an artefact is complete or invisible.
4. *(done)* `Unlock`: a sequence of writes of which one fails, several tablets.
5. *(done)* `Wizard`: caches of a long process, a device exchanged under it; `Packages` and
   `Packages_proofs`.
6. *(done)* `Tables`, `BootLayout`, `PayloadImage`, `Formats`.
7. *(done)* Theorems on `Rooting`, `Unlock`, `Wizard`, `Bundles` and `Preflight`, and the refinement of
   `WriteAhead` by the session and by the session with preflight.
8. *(done)* Theorems on `Formats`, for inputs of any size (`Imaging_proofs`); what authority means in the composition, as
   one statement for writes with a token beside the one for the round trip.
9. Left: that a write of `Rooting` or `Unlock`, one step there, is what `DeviceSession` does in many; `Harden`,
   whose settings no later step reads; the byte layouts of cpio and vbmeta.
