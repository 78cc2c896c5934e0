--------------------------- MODULE Imaging_proofs ---------------------------
(***************************************************************************)
(* Proofs about what decides on an image and what reads one: the verifier, *)
(* for every set of images, partitions, tables and trusted references, and *)
(* the readers of partition tables, boot images, payloads and messages,    *)
(* for every input they can be given (FormatsAssumption bounds nothing but *)
(* its shape).                                                             *)
(***************************************************************************)
EXTENDS VerifierProps, FormatsProps, SequenceTheorems, WellFoundedInduction,
        TLAPS

-----------------------------------------------------------------------------

(***************************************************************************)
(* The verifier  (safety/verify.py).                                       *)
(***************************************************************************)


(* A report is what the checks found, and nothing but provenance was       *)
(* acknowledged.                                                           *)
ReportIsOfCall ==
  /\ call \in Calls
  /\ report # NotYet =>
       report \in [failing : {VerifyCandidate(call)},
                   acknowledged : SUBSET {"provenance"}]

LEMMA ReportsHold == VSpec => []ReportIsOfCall
<1>1. VInit => ReportIsOfCall
  BY DEF VInit, ReportIsOfCall
<1>2. ReportIsOfCall /\ [VNext]_vvars => ReportIsOfCall'
  <2> SUFFICES ASSUME ReportIsOfCall, [VNext]_vvars PROVE ReportIsOfCall'
    OBVIOUS
  <2> USE DEF ReportIsOfCall
  <2>1. CASE Verify
    <3>1. report' = [failing |-> VerifyCandidate(call), acknowledged |-> {}]
      BY <2>1 DEF Verify
    <3>2. call' = call
      BY <2>1 DEF Verify
    <3>3. VerifyCandidate(call)' = VerifyCandidate(call)
      BY <3>2 DEF VerifyCandidate, InTable
    <3> QED BY <3>1, <3>2, <3>3
  <2>2. CASE Override
    <3>1. call' = call /\ report # NotYet
      BY <2>2 DEF Override
    <3>2. VerifyCandidate(call)' = VerifyCandidate(call)
      BY <3>1 DEF VerifyCandidate, InTable
    <3>3. report' = [report EXCEPT !.acknowledged = @ \cup {"provenance"}]
      BY <2>2 DEF Override
    <3> QED BY <3>1, <3>2, <3>3
  <2>3. CASE UNCHANGED vvars
    BY <2>3 DEF vvars, VerifyCandidate, InTable
  <2> QED BY <2>1, <2>2, <2>3 DEF VNext
<1> QED BY <1>1, <1>2, PTL DEF VSpec

(* A check that passed holds. *)
LEMMA FailsEmpty ==
  ASSUME NEW name, NEW holds \in BOOLEAN, name \notin Fails(name, holds)
  PROVE  holds
  BY DEF Fails

(* What a report without failures says, check by check. *)
LEMMA NothingFailed ==
  ASSUME NEW c, "provenance" \notin VerifyCandidate(c),
         "non_empty" \notin VerifyCandidate(c),
         "partition_exists" \notin VerifyCandidate(c)
  PROVE  "provenance" \notin ProvenanceFails(c.target, c.image, c.refs)
  BY DEF VerifyCandidate

(* Of an image of the boot family: it parses, and a reference vouches. *)
LEMMA Vouched ==
  ASSUME NEW c, VerifyCandidate(c) = {}, BootFamily(c.target)
  PROVE  /\ Parses(c.image, MayLackKernel(c.target))
         /\ \E ref \in c.refs : /\ Parses(ref, MayLackKernel(c.target))
                               /\ DerivedFrom(c.image, ref)
<1>1. "provenance" \notin ProvenanceFails(c.target, c.image, c.refs)
  BY NothingFailed
<1> QED BY <1>1 DEF ProvenanceFails, Fails, Provenance

(* A report that passes without an acknowledgement has no failure at all. *)
LEMMA PassedClean ==
  ASSUME ReportIsOfCall, Passed, Calm
  PROVE  VerifyCandidate(call) = {}
  BY DEF ReportIsOfCall, Passed, Calm, Ok

(* Failure mode 1: no kernel gets past the comparison (verify.py:149-154). *)
THEOREM NoForeignKernel == VSpec => []KernelVouched
<1>1. ReportIsOfCall => KernelVouched
  <2> SUFFICES ASSUME ReportIsOfCall, Passed, Calm, BootFamily(call.target),
                      Kernel(call.image) # NoKernel
               PROVE  \E ref \in call.refs : Kernel(ref) = Kernel(call.image)
    BY DEF KernelVouched
  <2>1. PICK ref \in call.refs : DerivedFrom(call.image, ref)
    BY PassedClean, Vouched
  <2>2. Kernel(ref) = Kernel(call.image)
    BY <2>1 DEF DerivedFrom
  <2> QED BY <2>2
<1> QED BY <1>1, ReportsHold, PTL

(* The exception made for init_boot covers no other partition. *)
THEOREM KernelKept == VSpec => []BootKeepsAKernel
<1>1. ReportIsOfCall => BootKeepsAKernel
  <2> SUFFICES ASSUME ReportIsOfCall, Passed,
                      call.target.base \in {"boot", "recovery"}
               PROVE  Kernel(call.image) # NoKernel
    BY DEF BootKeepsAKernel
  <2>1. Expected(call.target) = "boot"
    BY DEF Expected, EXPECTED_KIND
  <2>2. ~MayLackKernel(call.target) /\ BootFamily(call.target)
    BY <2>1 DEF MayLackKernel, KERNEL_LESS, BootFamily
  <2>3. VerifyCandidate(call) \subseteq {"provenance"}
    BY DEF ReportIsOfCall, Passed, Ok
  <2>4. FormatFails(call.target, call.image) \subseteq {"provenance"}
    BY <2>3 DEF VerifyCandidate, Fails
  <2>5. /\ Parses(call.image, MayLackKernel(call.target))
        /\ call.image.kind = "boot"
    BY <2>1, <2>2, <2>4 DEF FormatFails, Fails
  <2> QED BY <2>2, <2>5 DEF Parses, Kernel
<1> QED BY <1>1, ReportsHold, PTL

(* A reference more never revokes what another one vouches for. *)
THEOREM TrustIsMonotone == VSpec => []MoreTrustNeverRefuses
<1>1. ReportIsOfCall => MoreTrustNeverRefuses
  <2> SUFFICES ASSUME ReportIsOfCall, report # NotYet, Calm,
                      BootFamily(call.target), Ok(report), NEW more \in Trusted
               PROVE  VerifyCandidate([call EXCEPT !.refs = @ \cup more]) = {}
    BY DEF MoreTrustNeverRefuses
  <2> DEFINE d == [call EXCEPT !.refs = @ \cup more]
  <2>1. /\ d.target = call.target /\ d.image = call.image
        /\ d.table = call.table /\ d.patch = call.patch
        /\ d.binding = call.binding /\ d.refs = call.refs \cup more
    BY DEF ReportIsOfCall, Calls
  <2>2. VerifyCandidate(call) = {}
    BY PassedClean DEF Passed
  <2>3. ProvenanceFails(d.target, d.image, d.refs) = {}
    <3>1. PICK ref \in call.refs : /\ Parses(ref, MayLackKernel(call.target))
                                  /\ DerivedFrom(call.image, ref)
      BY <2>2, Vouched
    <3>2. Parses(call.image, MayLackKernel(call.target))
      BY <2>2, Vouched
    <3>3. ref \in d.refs
      BY <2>1
    <3> HIDE DEF d
    <3> QED BY <2>1, <3>1, <3>2, <3>3 DEF ProvenanceFails, Provenance, Fails
  <2>4. d.patch => PatchFails(d.target, d.image, d.refs) = {}
    <3> SUFFICES ASSUME call.patch
                 PROVE  PatchFails(call.target, call.image, call.refs \cup more) = {}
      BY <2>1
    <3>1. PatchFails(call.target, call.image, call.refs) = {}
      BY <2>2 DEF VerifyCandidate, Fails
    <3>2. call.refs # {}
      BY <2>2, Vouched
    <3> QED BY <3>1, <3>2 DEF PatchFails, Fails
  <2> QED BY <2>1, <2>2, <2>3, <2>4 DEF VerifyCandidate, Fails, InTable
<1> QED BY <1>1, ReportsHold, PTL

(* A stock ramdisk that can be read never passes for a patched one.        *)
THEOREM StockNeverPasses == VSpec => []StockIsSeen
<1>1. ReportIsOfCall => StockIsSeen
  <2> SUFFICES ASSUME ReportIsOfCall, Passed, call.patch, NEW ref \in call.refs,
                      ref.ramdisk = call.image.ramdisk, ref.ramdisk.form = "cpio",
                      ref.ramdisk.names # {}
               PROVE  ref.ramdisk.names \cap (Magisk \cup OtherRoot) # {}
    BY DEF StockIsSeen
  <2>1. VerifyCandidate(call) \subseteq {"provenance"}
    BY DEF ReportIsOfCall, Passed, Ok
  <2>2. PatchFails(call.target, call.image, call.refs) \subseteq {"provenance"}
    BY <2>1 DEF VerifyCandidate, Fails
  <2>3. "root_patch_present" \notin PatchFails(call.target, call.image, call.refs)
    BY <2>2
  <2>4. PatchState(call.image.ramdisk) # "not_patched"
    BY <2>3 DEF PatchFails, Fails
  <2> QED BY <2>4 DEF PatchState, Listing
<1> QED BY <1>1, ReportsHold, PTL

-----------------------------------------------------------------------------

(***************************************************************************)
(* What the readers are given  Formats chooses one input and reads it; an  *)
(* input of a kind is therefore one of the constant's, and those have the  *)
(* shape FormatsAssumption gives them.                                     *)
(***************************************************************************)

(* The input under the reader is one of the constants'.                    *)
SeenOK ==
  seen = Nothing
    \/ seen \in [disk : Disks] \cup [header : Headers, length : Lengths]
               \cup [payload : Payloads] \cup [message : Messages]

(* No step of Formats leaves the inputs it may choose from.                *)
LEMMA SeenIsOK == FSpec => []SeenOK
<1>1. FInit => SeenOK
  BY DEF FInit, SeenOK
<1>2. SeenOK /\ [FNext]_seen => SeenOK'
  BY DEF SeenOK, FNext, ATable, AnImage, APayload, AMessage
<1> QED BY <1>1, <1>2, PTL DEF FSpec

(* An input with a disk is a choice of ATable, and of no other reader.     *)
LEMMA ADisk == SeenOK /\ Has("disk") => seen.disk \in Disks
  BY DEF SeenOK, Has

(* An input with a header is a choice of AnImage.                          *)
LEMMA AHeader == SeenOK /\ Has("header") => seen.header \in Headers /\ seen.length \in Lengths
  BY DEF SeenOK, Has

(* An input with a payload is a choice of APayload.                        *)
LEMMA PayloadOf == SeenOK /\ Has("payload") => seen.payload \in Payloads
  BY DEF SeenOK, Has

(* An input with a message is a choice of AMessage.                        *)
LEMMA MessageOf == SeenOK /\ Has("message") => seen.message \in Messages
  BY DEF SeenOK, Has

-----------------------------------------------------------------------------

(***************************************************************************)
(* Loops  A loop over a list is a recursive function of the round: its     *)
(* value at i is what round i leaves. Two facts about such functions carry *)
(* everything below. A set of rounds that holds 0 and goes from each round *)
(* to the next holds them all (the least round outside it would follow one *)
(* inside), and the recursion has a solution, so the CHOOSE that defines   *)
(* the function is one.                                                    *)
(***************************************************************************)

(* Induction over the rounds of a loop: the least round outside S, which   *)
(* exists because < is well founded on Nat, would follow a round inside S. *)
LEMMA Induct ==
  ASSUME NEW n \in Nat, NEW S, 0 \in S,
         \A i \in 1 .. n : i - 1 \in S => i \in S
  PROVE  0 .. n \subseteq S
<1> DEFINE Out == (0 .. n) \ S
<1>1. SUFFICES ASSUME Out # {} PROVE FALSE
  OBVIOUS
<1>2. PICK x \in Out : \A y \in Out : ~(<<y, x>> \in OpToRel(<, Nat))
  <2>1. Out \subseteq Nat
    OBVIOUS
  <2> QED BY <1>1, <2>1, NatLessThanWellFounded, WFMin, Zenon
<1>3. \A y \in Nat : y < x => <<y, x>> \in OpToRel(<, Nat)
  BY DEF OpToRel
<1>4. x \in 1 .. n /\ x - 1 \in 0 .. n /\ x - 1 < x /\ x - 1 \in Nat
  OBVIOUS
<1>5. x - 1 \in S
  <2>1. <<x - 1, x>> \in OpToRel(<, Nat)
    BY <1>3, <1>4
  <2>2. x - 1 \notin Out
    BY <1>2, <2>1
  <2> QED BY <1>4, <2>2
<1> QED BY <1>4, <1>5

(* n rounds over values in T: the loop starts at t, and round i makes      *)
(* step[<<i, x>>] of x.                                                    *)
IsLoop(n, T, t, step) == n \in Nat /\ t \in T /\ step \in [(1 .. n) \X T -> T]

(* f[i] is what round i of that loop leaves.                               *)
IsRun(f, n, T, t, step) ==
  /\ f \in [0 .. n -> T] /\ f[0] = t
  /\ \A i \in 1 .. n : f[i] = step[<<i, f[i - 1]>>]

(* Every loop has a run: a run of i - 1 rounds is one round short of a run *)
(* of i.                                                                   *)
LEMMA Loop ==
  ASSUME NEW n, NEW T, NEW t, NEW step, IsLoop(n, T, t, step)
  PROVE  \E f : IsRun(f, n, T, t, step)
<1> DEFINE S == {m \in 0 .. n : \E f : IsRun(f, m, T, t, step)}
<1>0. n \in Nat /\ t \in T /\ step \in [(1 .. n) \X T -> T]
  BY DEF IsLoop
<1>1. 0 \in S
  <2> DEFINE f == [i \in 0 .. 0 |-> t]
  <2>1. IsRun(f, 0, T, t, step)
    BY <1>0 DEF IsRun
  <2> HIDE DEF f
  <2> QED BY <1>0, <2>1
<1>2. ASSUME NEW i \in 1 .. n, i - 1 \in S PROVE i \in S
  <2>1. PICK f : IsRun(f, i - 1, T, t, step)
    BY <1>2
  <2>2. /\ f \in [0 .. i - 1 -> T] /\ f[0] = t
        /\ \A j \in 1 .. i - 1 : f[j] = step[<<j, f[j - 1]>>]
    BY <2>1 DEF IsRun
  <2> DEFINE g == [j \in 0 .. i |-> IF j = i THEN step[<<i, f[i - 1]>>] ELSE f[j]]
  <2>3. g \in [0 .. i -> T]
    <3>1. f[i - 1] \in T
      BY <1>0, <2>2
    <3>2. step[<<i, f[i - 1]>>] \in T
      BY <1>0, <3>1
    <3> QED BY <1>0, <2>2, <3>2
  <2>4. g[0] = t
    BY <1>0, <2>2
  <2>5. ASSUME NEW j \in 1 .. i PROVE g[j] = step[<<j, g[j - 1]>>]
    <3>1. CASE j = i
      <4>1. j - 1 \in 0 .. i /\ j - 1 # i
        BY <1>0, <3>1
      <4> QED BY <3>1, <4>1
    <3>2. CASE j # i
      <4>1. j \in 1 .. i - 1 /\ g[j] = f[j] /\ g[j - 1] = f[j - 1]
        BY <1>0, <3>2
      <4> QED BY <2>2, <4>1
    <3> QED BY <3>1, <3>2
  <2> HIDE DEF g
  <2>6. IsRun(g, i, T, t, step)
    BY <2>3, <2>4, <2>5 DEF IsRun
  <2> QED BY <1>0, <2>6
<1> HIDE DEF S
<1>3. 0 .. n \subseteq S
  BY <1>0, <1>1, <1>2, Induct
<1>4. n \in S
  BY <1>0, <1>3
<1> QED BY <1>4 DEF S

(* A function of the round that starts in T, and that no round takes out   *)
(* of T, is in T throughout.                                               *)
LEMMA StaysIn ==
  ASSUME NEW n \in Nat, NEW T, NEW f, f = [i \in 0 .. n |-> f[i]], f[0] \in T,
         \A i \in 1 .. n : f[i - 1] \in T => f[i] \in T
  PROVE  f \in [0 .. n -> T]
<1> DEFINE S == {i \in 0 .. n : f[i] \in T}
<1>1. 0 \in S
  OBVIOUS
<1>2. \A i \in 1 .. n : i - 1 \in S => i \in S
  OBVIOUS
<1> HIDE DEF S
<1>3. 0 .. n \subseteq S
  BY <1>1, <1>2, Induct
<1>4. \A i \in 0 .. n : f[i] \in T
  BY <1>3 DEF S
<1> QED BY <1>4

-----------------------------------------------------------------------------

(***************************************************************************)
(* Partition tables  (imaging/gpt.py, transport/edl.py, ops/root.py,       *)
(* cli.py).                                                                *)
(***************************************************************************)

(* A dict built from a list keeps the last entry of a name; where names do *)
(* not repeat that is the entry itself.                                    *)
LEMMA OnlyOne ==
  ASSUME NEW table, NEW i \in DOMAIN table, i \in Int,
         \A j \in DOMAIN table : table[j].name = table[i].name => j = i
  PROVE  Get(table, table[i].name) = table[i]
<1> DEFINE last(k) == /\ table[k].name = table[i].name
                      /\ \A j \in DOMAIN table : table[j].name = table[i].name => j <= k
<1>1. last(i)
  OBVIOUS
<1>2. \A k \in DOMAIN table : last(k) => k = i
  OBVIOUS
<1> QED BY <1>1, <1>2 DEF Get

(* A number of bytes that fills whole sectors survives the division that   *)
(* turns it into short sectors (gpt.py's parse_printgpt_text).             *)
LEMMA Multiples ==
  ASSUME NEW m \in Nat, NEW n \in Nat, n % Small = 0
  PROVE  ((m * n) \div Small) * Small = m * n
<1>1. Small \in Nat \ {0}
  BY TablesAssumption
<1> DEFINE k == n \div Small
<1>2. k \in Nat /\ n = Small * k
  BY <1>1
<1> HIDE DEF k
<1>3. m * k \in Nat /\ m * n = Small * (m * k)
  BY <1>1, <1>2
<1> DEFINE p == m * k
<1> HIDE DEF p
<1>4. p \in Nat => (Small * p) \div Small = p
  BY <1>1
<1>5. (m * n) \div Small = p
  BY <1>3, <1>4 DEF p
<1> QED BY <1>1, <1>3, <1>5 DEF p

(* The shape of a disk: AllDisks, unfolded for the provers.                *)
LEMMA DiskFacts ==
  ASSUME NEW d \in Disks
  PROVE  /\ Len(d.entries) \in Nat /\ DOMAIN d.entries = 1 .. Len(d.entries)
         /\ d.sector \in {Small, Long} /\ d.sector \in Nat \ {0} /\ d.sector % Small = 0
         /\ d.bare \in BOOLEAN
         /\ \A i \in DOMAIN d.entries :
              /\ d.entries[i].first \in Nat /\ d.entries[i].last \in Nat
              /\ d.entries[i].used \in BOOLEAN
<1>1. d \in AllDisks
  BY FormatsAssumption
<1>2. d.entries \in Seq(Entries) /\ d.sector \in {Small, Long} /\ d.bare \in BOOLEAN
  BY <1>1 DEF AllDisks
<1>3. Small % Small = 0
  BY TablesAssumption
<1> QED BY <1>2, <1>3, TablesAssumption

(* What a dump read up to an entry holds: the used entries the dump        *)
(* reaches, each as its place on the whole disk (gpt.py's loop skips the   *)
(* unused ones and stops where the dump does).                             *)
LEMMA BinaryIs ==
  ASSUME NEW d \in Disks, NEW upto \in 0 .. Len(d.entries)
  PROVE  /\ DOMAIN FromBinary(d, upto) =
              {i \in Used(d) : i <= upto /\ i <= Reach(d)}
         /\ \A i \in DOMAIN FromBinary(d, upto) :
              FromBinary(d, upto)[i] = Entry(d.entries[i], SectorOf(d))
<1> DEFINE there == InDump(d.entries, upto)
<1>1. /\ Len(d.entries) \in Nat /\ DOMAIN d.entries = 1 .. Len(d.entries)
      /\ upto \in Nat
  BY DiskFacts
<1>2. Len(there) = upto /\ \A i \in 1 .. upto : there[i] = d.entries[i]
  BY <1>1 DEF InDump
<1>3. Reach(d) \in Nat /\ Reach(d) <= Len(d.entries)
  BY <1>1, TablesAssumption DEF Reach, AtLeastZero
<1> HIDE DEF there
<1>4. {i \in 1 .. Least(Len(there), Reach(d)) : there[i].used}
         = {i \in Used(d) : i <= upto /\ i <= Reach(d)}
  BY <1>1, <1>2, <1>3 DEF Used, Least
<1>5. FromBinary(d, upto) =
        [i \in {j \in 1 .. Least(Len(there), Reach(d)) : there[j].used} |->
           Entry(there[i], SectorOf(d))]
  BY DEF FromBinary, there
<1>6. \A i \in Used(d) : i <= upto => there[i] = d.entries[i]
  BY <1>1, <1>2 DEF Used
<1> QED BY <1>4, <1>5, <1>6

(* A dump cut short loses partitions and moves none: what a reader still   *)
(* finds lies where it lies in the whole table (gpt.py's bounded loop).    *)
THEOREM CutsOnlyLose == FSpec => []CutTableOnlyLoses
<1>1. SeenOK => CutTableOnlyLoses
  <2> SUFFICES ASSUME SeenOK, Has("disk"), Unrepeated(seen.disk),
                      NEW upto \in 0 .. Len(seen.disk.entries),
                      NEW n \in Names(FromBinary(seen.disk, upto))
               PROVE  /\ n \in Names(Whole(seen.disk))
                      /\ Extent(FromBinary(seen.disk, upto), n) = Extent(Whole(seen.disk), n)
    BY DEF CutTableOnlyLoses
  <2> DEFINE d == seen.disk
             cut == FromBinary(d, upto)
             whole == Whole(d)
  <2>1. d \in Disks
    BY ADisk
  <2>2. Len(d.entries) \in Nat /\ DOMAIN d.entries = 1 .. Len(d.entries)
    BY <2>1, DiskFacts
  <2>3. /\ DOMAIN cut = {i \in Used(d) : i <= upto /\ i <= Reach(d)}
        /\ \A i \in DOMAIN cut : cut[i] = Entry(d.entries[i], SectorOf(d))
    BY <2>1, BinaryIs
  <2>4. /\ DOMAIN whole = {i \in Used(d) : i <= Len(d.entries) /\ i <= Reach(d)}
        /\ \A i \in DOMAIN whole : whole[i] = Entry(d.entries[i], SectorOf(d))
    <3>1. Len(d.entries) \in 0 .. Len(d.entries)
      BY <2>2
    <3> QED BY <2>1, <3>1, BinaryIs DEF Whole
  <2>5. DOMAIN cut \subseteq DOMAIN whole /\ DOMAIN whole \subseteq Int
    BY <2>2, <2>3, <2>4 DEF Used
  <2>6. \A i \in DOMAIN whole : whole[i].name = d.entries[i].name
    <3>1. \A e, sector : Entry(e, sector).name = e.name
      BY DEF Entry, Partition
    <3> HIDE DEF whole, d
    <3> QED BY <2>4, <3>1
  <2>7. \A i \in DOMAIN cut : cut[i] = whole[i]
    BY <2>3, <2>4, <2>5
  <2>8. \A i, j \in DOMAIN whole : whole[i].name = whole[j].name => i = j
    BY <2>4, <2>6 DEF Unrepeated
  <2> HIDE DEF d, cut, whole
  <2>9. PICK i \in DOMAIN cut : cut[i].name = n
    BY DEF Names, cut, d
  <2>10. Get(cut, n) = cut[i]
    BY <2>5, <2>7, <2>8, <2>9, OnlyOne
  <2>11. Get(whole, n) = whole[i]
    BY <2>5, <2>7, <2>8, <2>9, OnlyOne
  <2>12. n \in Names(whole)
    BY <2>5, <2>7, <2>9 DEF Names
  <2> QED BY <2>5, <2>7, <2>9, <2>10, <2>11, <2>12 DEF Extent, cut, whole, d
<1> QED BY <1>1, SeenIsOK, PTL

(* Whatever the table and whatever the images carry, root and unroot       *)
(* choose no partition of a slot other than the one they were told         *)
(* (root.py's choose_target, cli.py's cmd_unroot).                         *)
THEOREM SlotsKept == FSpec => []NeverTheWrongSlot
<1>1. \A table, base : \A slot \in {"", "a", "b"} :
        Candidate(table, base, slot).slot \in {"", slot}
  BY DEF Candidate, Named
<1>2. NeverTheWrongSlot
  <2> SUFFICES ASSUME NEW table, NEW slot \in {"", "a", "b"}, NEW carries,
                      NEW n \in ChooseTarget(table, RootTargets, slot, carries)
                                 \cup UnrootTargets(table, RootTargets, slot)
               PROVE  n.slot \in {"", slot}
    BY DEF NeverTheWrongSlot
  <2>1. CASE n \in ChooseTarget(table, RootTargets, slot, carries)
    <3>1. \E base : n = Candidate(table, base, slot)
      BY <2>1 DEF ChooseTarget
    <3> QED BY <1>1, <3>1
  <2>2. CASE n \in UnrootTargets(table, RootTargets, slot)
    <3>1. n \in {Named(RootTargets[i], slot) : i \in DOMAIN RootTargets} \cap Names(table)
      <4>1. CASE slot = "" /\ HasSlots(table)
        BY <2>2, <4>1 DEF UnrootTargets
      <4>2. CASE ~(slot = "" /\ HasSlots(table))
        BY <2>2, <4>2 DEF UnrootTargets
      <4> QED BY <4>1, <4>2
    <3>2. PICK i \in DOMAIN RootTargets : n = Named(RootTargets[i], slot)
      BY <3>1
    <3>3. \A base : Named(base, slot).slot = slot
      BY DEF Named
    <3> QED BY <3>2, <3>3
  <2> QED BY <2>1, <2>2
<1> QED BY <1>2, PTL

(* A partition with bytes, on a disk read in its own sectors, is in all    *)
(* three sources and has one extent there: the dump's sectors,             *)
(* rawprogram's and the printed bytes are one place.                       *)
LEMMA SourcesOf ==
  ASSUME NEW d \in Disks, SectorOf(d) = d.sector, NEW i \in Used(d),
         d.entries[i].last - d.entries[i].first + 1 > 0
  PROVE  LET whole == Whole(d)
             xml   == FromXml(AsXml(d))
             print == FromPrint(AsPrint(d))
         IN  /\ i \in DOMAIN whole /\ i \in DOMAIN xml /\ i \in DOMAIN print
             /\ xml[i].name = d.entries[i].name /\ print[i].name = d.entries[i].name
             /\ \A p \in {xml[i], print[i]} :
                  StartByte(p) = StartByte(whole[i]) /\ SizeBytes(p) = SizeBytes(whole[i])
<1> DEFINE e == d.entries[i]
           length == e.last - e.first + 1
<1>1. /\ Len(d.entries) \in Nat /\ DOMAIN d.entries = 1 .. Len(d.entries)
      /\ d.sector \in Nat \ {0} /\ d.sector % Small = 0 /\ i \in DOMAIN d.entries
      /\ e.first \in Nat /\ e.last \in Nat
  BY DiskFacts DEF Used
<1>2. Reach(d) = Len(d.entries)
  BY DEF Reach, SectorOf
<1>3. /\ DOMAIN Whole(d) = {j \in Used(d) : j <= Len(d.entries) /\ j <= Reach(d)}
      /\ \A j \in DOMAIN Whole(d) : Whole(d)[j] = Entry(d.entries[j], d.sector)
  <2>1. Len(d.entries) \in 0 .. Len(d.entries)
    BY <1>1
  <2> QED BY <2>1, BinaryIs DEF Whole
<1>4. i \in DOMAIN Whole(d) /\ Whole(d)[i] = Partition(e.name, e.first, length, d.sector)
  BY <1>1, <1>2, <1>3 DEF Entry, AtLeastZero
<1>5. /\ i \in DOMAIN AsXml(d) /\ i \in DOMAIN FromXml(AsXml(d))
      /\ FromXml(AsXml(d))[i] = Partition(e.name, e.first, length, d.sector)
  BY DEF AsXml, FromXml
<1>6. length * d.sector > 0 /\ length \in Nat
  BY <1>1
<1>7. /\ i \in DOMAIN FromPrint(AsPrint(d))
      /\ FromPrint(AsPrint(d))[i] =
           Partition(e.name, (e.first * d.sector) \div Small,
                     (length * d.sector) \div Small, Small)
  <2>1. /\ i \in DOMAIN AsPrint(d)
        /\ AsPrint(d)[i] = [name |-> e.name, start |-> e.first * d.sector,
                            length |-> length * d.sector]
    BY DEF AsPrint
  <2>2. i \in {j \in DOMAIN AsPrint(d) : AsPrint(d)[j].length > 0}
    BY <1>6, <2>1
  <2> HIDE DEF e, length
  <2>3. FromPrint(AsPrint(d)) =
          [k \in {j \in DOMAIN AsPrint(d) : AsPrint(d)[j].length > 0} |->
             Partition(AsPrint(d)[k].name, AsPrint(d)[k].start \div Small,
                       AsPrint(d)[k].length \div Small, Small)]
    BY DEF FromPrint
  <2> QED BY <2>1, <2>2, <2>3
<1>8. /\ ((e.first * d.sector) \div Small) * Small = e.first * d.sector
      /\ ((length * d.sector) \div Small) * Small = length * d.sector
  BY <1>1, <1>6, Multiples
<1> HIDE DEF e, length
<1>9. \A name, start, count, sector :
        LET p == Partition(name, start, count, sector)
        IN  p.name = name /\ StartByte(p) = start * sector /\ SizeBytes(p) = count * sector
  BY DEF Partition, StartByte, SizeBytes
<1> QED BY <1>4, <1>5, <1>7, <1>8, <1>9 DEF e

(* The three sources of a partition table agree wherever the sector was    *)
(* guessed right: a name found through the directory has the same extent   *)
(* in rawprogram and in the printed table, which are what edl falls back   *)
(* to.                                                                     *)
THEOREM SourcesDoAgree == FSpec => []SourcesAgree
<1>1. SeenOK => SourcesAgree
  <2> DEFINE d == seen.disk
             xml == FromXml(AsXml(d))
             print == FromPrint(AsPrint(d))
             whole == FromDir(<<Whole(d)>>, xml)
  <2> SUFFICES ASSUME SeenOK, Has("disk"), Unrepeated(d), SectorOf(d) = d.sector,
                      NEW n \in Names(whole), NEW other \in {xml, print},
                      SizeBytes(Get(whole, n)) > 0
               PROVE  n \in Names(other) /\ Extent(other, n) = Extent(whole, n)
    BY DEF SourcesAgree
  <2>1. d \in Disks
    BY ADisk
  <2>2. /\ Len(d.entries) \in Nat /\ DOMAIN d.entries = 1 .. Len(d.entries)
        /\ Reach(d) = Len(d.entries)
        /\ \A i \in DOMAIN d.entries : d.entries[i].first \in Nat /\ d.entries[i].last \in Nat
        /\ d.sector \in Nat
    BY <2>1, DiskFacts DEF Reach, SectorOf
  <2>3. /\ DOMAIN Whole(d) = Used(d)
        /\ \A i \in Used(d) : Whole(d)[i] = Entry(d.entries[i], d.sector)
    <3>1. Len(d.entries) \in 0 .. Len(d.entries)
      BY <2>2
    <3>2. /\ DOMAIN Whole(d) = {i \in Used(d) : i <= Len(d.entries) /\ i <= Reach(d)}
          /\ \A i \in DOMAIN Whole(d) : Whole(d)[i] = Entry(d.entries[i], SectorOf(d))
      BY <2>1, <3>1, BinaryIs DEF Whole
    <3> QED BY <2>2, <3>2 DEF Used
  <2>4. DOMAIN xml = Used(d) /\ DOMAIN print \subseteq Used(d)
    BY DEF AsXml, FromXml, AsPrint, FromPrint
  <2>5. /\ \A i \in DOMAIN xml : xml[i].name = d.entries[i].name
        /\ \A i \in DOMAIN print : print[i].name = d.entries[i].name
    <3>1. \A name, start, count, sector : Partition(name, start, count, sector).name = name
      BY DEF Partition
    <3>2. \A i \in DOMAIN xml : \E start, count, sector :
            xml[i] = Partition(d.entries[i].name, start, count, sector)
      BY DEF AsXml, FromXml
    <3>3. \A i \in DOMAIN print : \E start, count, sector :
            print[i] = Partition(d.entries[i].name, start, count, sector)
      BY DEF AsPrint, FromPrint
    <3> HIDE DEF xml, print, d
    <3> QED BY <3>1, <3>2, <3>3
  <2>6. Used(d) \subseteq Int
    BY <2>2 DEF Used
  <2>7. \A i, j \in Used(d) : d.entries[i].name = d.entries[j].name => i = j
    BY DEF Unrepeated
  <2>8. whole = Whole(d)
    <3>1. CASE Used(d) = {}
      <4>1. Names(xml) = {}
        BY <2>4, <3>1 DEF Names
      <4>2. whole = xml
        <5>1. DOMAIN (<<Whole(d)>>[1]) = {}
          BY <2>3, <3>1
        <5>2. {i \in DOMAIN <<Whole(d)>> : DOMAIN (<<Whole(d)>>[i]) # {}} = {}
          BY <5>1
        <5> HIDE DEF xml
        <5> QED BY <5>2 DEF FromDir
      <4> QED BY <4>1, <4>2
    <3>2. CASE Used(d) # {}
      <4>1. DOMAIN (<<Whole(d)>>[1]) # {}
        BY <2>3, <3>2
      <4>2. {i \in DOMAIN <<Whole(d)>> : DOMAIN (<<Whole(d)>>[i]) # {}} = {1}
        BY <4>1
      <4>3. First({1}) = 1
        BY DEF First
      <4> HIDE DEF xml
      <4> QED BY <4>2, <4>3 DEF FromDir
    <3> QED BY <3>1, <3>2
  <2>9. PICK i \in Used(d) : Whole(d)[i].name = n
    BY <2>3, <2>8 DEF Names
  <2>10. /\ \A j \in Used(d) : Whole(d)[j].name = d.entries[j].name
         /\ \A j \in Used(d) : SizeBytes(Whole(d)[j]) =
              AtLeastZero(d.entries[j].last - d.entries[j].first + 1) * d.sector
    <3>1. \A e, sector : /\ Entry(e, sector).name = e.name
                         /\ SizeBytes(Entry(e, sector)) =
                              AtLeastZero(e.last - e.first + 1) * sector
      BY DEF Entry, Partition, SizeBytes
    <3> HIDE DEF d
    <3> QED BY <2>3, <3>1
  <2> HIDE DEF d, xml, print, whole
  <2>11. Get(Whole(d), n) = Whole(d)[i]
    BY <2>3, <2>6, <2>7, <2>9, <2>10, OnlyOne
  <2>12. d.entries[i].last - d.entries[i].first + 1 > 0
    <3>1. d.entries[i].first \in Nat /\ d.entries[i].last \in Nat
      BY <2>2 DEF Used
    <3>2. AtLeastZero(d.entries[i].last - d.entries[i].first + 1) * d.sector > 0
      BY <2>8, <2>10, <2>11
    <3> QED BY <2>2, <3>1, <3>2 DEF AtLeastZero
  <2>13. /\ i \in DOMAIN other /\ other[i].name = n
         /\ StartByte(other[i]) = StartByte(Whole(d)[i])
         /\ SizeBytes(other[i]) = SizeBytes(Whole(d)[i])
    BY <2>1, <2>9, <2>10, <2>12, SourcesOf DEF xml, print
  <2>14. \A j \in DOMAIN other : j \in Used(d) /\ other[j].name = d.entries[j].name
    BY <2>4, <2>5
  <2>15. Get(other, n) = other[i]
    BY <2>6, <2>7, <2>13, <2>14, OnlyOne
  <2>16. n \in Names(other)
    BY <2>13 DEF Names
  <2> QED BY <2>8, <2>11, <2>13, <2>15, <2>16 DEF Extent
<1> QED BY <1>1, SeenIsOK, PTL

-----------------------------------------------------------------------------

(***************************************************************************)
(* Boot images  (imaging/bootimg.py).                                      *)
(***************************************************************************)

(* Rounding up to whole pages never shrinks, and never makes nothing of    *)
(* something.                                                              *)
LEMMA AlignUp ==
  ASSUME NEW n \in Nat, NEW p \in Nat \ {0}
  PROVE  Align(n, p) \in Nat /\ Align(n, p) >= n /\ (n > 0 => Align(n, p) >= p)
<1> DEFINE q == (n + p - 1) \div p
           r == (n + p - 1) % p
<1>1. q \in Nat /\ r \in 0 .. p - 1 /\ n + p - 1 = p * q + r
  OBVIOUS
<1>2. n > 0 => q >= 1
  BY <1>1
<1> HIDE DEF q, r
<1>3. q * p \in Nat /\ q * p >= n /\ (n > 0 => q * p >= p)
  BY <1>1, <1>2
<1> QED BY <1>3 DEF Align, q

(* The sections of an image are as many as its version says, and each has  *)
(* a size (a field of the header that was read).                           *)
LEMMA OrderIs ==
  ASSUME NEW h \in Headers
  PROVE  /\ Len(Order(h)) \in Nat /\ DOMAIN Order(h) = 1 .. Len(Order(h))
         /\ \A i \in DOMAIN Order(h) : h.size[Order(h)[i]] \in Nat
         /\ h.size["signature"] \in Nat
<1>0. \/ h \in HeadersOf({"boot"}, 0 .. 4, BootFields)
      \/ h \in HeadersOf({"vendor_boot"}, {3, 4}, {"vendor_ramdisk", "dtb", "signature"})
  BY FormatsAssumption DEF AllHeaders
<1>1. CASE h \in HeadersOf({"vendor_boot"}, {3, 4}, {"vendor_ramdisk", "dtb", "signature"})
  BY <1>1 DEF HeadersOf, Order
<1>2. CASE h \in HeadersOf({"boot"}, 0 .. 4, BootFields)
  <2>1. /\ h.kind = "boot" /\ h.version \in 0 .. 4
        /\ \A s \in BootFields : h.size[s] \in Nat
    BY <1>2 DEF HeadersOf
  <2> DEFINE all == <<"kernel", "ramdisk", "second", "recovery_dtbo", "dtb">>
  <2>2. CASE h.version >= 3
    <3>1. Order(h) = <<"kernel", "ramdisk">>
      BY <2>1, <2>2 DEF Order
    <3> QED BY <2>1, <3>1 DEF BootFields
  <2>3. CASE h.version < 3
    <3>1. Order(h) = SubSeq(all, 1, 3 + h.version)
      BY <2>1, <2>3 DEF Order
    <3>2. all \in Seq(BootFields) /\ Len(all) = 5
      BY DEF BootFields
    <3>3. 3 + h.version \in 0 .. 5
      BY <2>1, <2>3
    <3> HIDE DEF all
    <3>4. SubSeq(all, 1, 3 + h.version) \in Seq(BootFields)
      <4>1. \A i \in 1 .. 3 + h.version : all[i] \in BootFields
        <5>1. \A i \in 1 .. 5 : all[i] \in BootFields
          BY DEF all, BootFields
        <5>2. 1 .. 3 + h.version \subseteq 1 .. 5
          BY <2>1, <3>3
        <5> QED BY <5>1, <5>2
      <4>2. 1 \in Int /\ 3 + h.version \in Int
        BY <3>3
      <4> QED BY <4>1, <4>2, SubSeqProperties
    <3>5. \A i \in DOMAIN Order(h) : Order(h)[i] \in BootFields
      BY <3>1, <3>4
    <3>6. Len(Order(h)) \in Nat /\ DOMAIN Order(h) = 1 .. Len(Order(h))
      BY <3>1, <3>4
    <3>7. "signature" \in BootFields
      BY DEF BootFields
    <3> QED BY <2>1, <3>5, <3>6, <3>7
  <2> QED BY <2>1, <2>2, <2>3
<1> QED BY <1>0, <1>1, <1>2

(* The first section starts past the header, which is at least a page.     *)
LEMMA FirstIs ==
  ASSUME NEW h \in Headers, PlausiblePage(PageOf(h))
  PROVE  /\ PageOf(h) \in Nat \ {0}
         /\ FirstOffset(h) \in Nat /\ FirstOffset(h) >= PageOf(h)
<1>1. PageOf(h) \in Nat \ {0}
  BY PageAssumption DEF PlausiblePage
<1>2. h.header \in Nat /\ (h.kind = "vendor_boot" => h.version \in {3, 4})
  BY FormatsAssumption DEF AllHeaders, HeadersOf
<1>3. CASE h.kind # "vendor_boot"
  BY <1>1, <1>3 DEF FirstOffset
<1>4. CASE h.kind = "vendor_boot"
  <2> DEFINE length == IF h.header < MinHeader \/ h.header > MaxPage
                         THEN HeaderOf[h.version] ELSE h.header
  <2>1. length \in Nat /\ length > 0
    BY <1>2, <1>4, PageAssumption
  <2>2. FirstOffset(h) = Align(length, PageOf(h))
    BY <1>4 DEF FirstOffset
  <2> HIDE DEF length
  <2> QED BY <1>1, <2>1, <2>2, AlignUp
<1> QED BY <1>1, <1>3, <1>4

(* What the loop over the sections keeps in offset: each round adds the    *)
(* section, rounded up to pages (bootimg.py's offset += _align).           *)
LEMMA OffsetsAre ==
  ASSUME NEW h \in Headers, PlausiblePage(PageOf(h))
  PROVE  /\ OffsetAfter(h) \in [0 .. Len(Order(h)) -> Nat]
         /\ OffsetAfter(h)[0] = FirstOffset(h)
         /\ \A n \in 1 .. Len(Order(h)) :
              OffsetAfter(h)[n] =
                OffsetAfter(h)[n - 1] + Align(h.size[Order(h)[n]], PageOf(h))
<1> DEFINE N == Len(Order(h))
           A(n) == Align(h.size[Order(h)[n]], PageOf(h))
           step == [x \in (1 .. N) \X Nat |-> x[2] + A(x[1])]
           Is(f) == f = [n \in 0 .. N |-> IF n = 0 THEN FirstOffset(h) ELSE f[n - 1] + A(n)]
<1>1. N \in Nat /\ FirstOffset(h) \in Nat /\ \A n \in 1 .. N : A(n) \in Nat
  BY OrderIs, FirstIs, AlignUp
<1>2. step \in [(1 .. N) \X Nat -> Nat]
  BY <1>1
<1>3. PICK f : IsRun(f, N, Nat, FirstOffset(h), step)
  <2>1. IsLoop(N, Nat, FirstOffset(h), step)
    BY <1>1, <1>2 DEF IsLoop
  <2> HIDE DEF step, N
  <2> QED BY <2>1, Loop
<1>4. \A n \in 1 .. N : n - 1 \in 0 .. N /\ n # 0 /\ n \in 0 .. N
  BY <1>1
<1>5. /\ f \in [0 .. N -> Nat] /\ f[0] = FirstOffset(h)
      /\ \A n \in 1 .. N : f[n] = f[n - 1] + A(n)
  <2> HIDE DEF N, A
  <2>1. /\ f \in [0 .. N -> Nat] /\ f[0] = FirstOffset(h)
        /\ \A n \in 1 .. N : f[n] = step[<<n, f[n - 1]>>]
    <3> HIDE DEF step
    <3> QED BY <1>3 DEF IsRun
  <2>2. \A n \in 1 .. N : step[<<n, f[n - 1]>>] = f[n - 1] + A(n)
    BY <1>4, <2>1
  <2> QED BY <2>1, <2>2
<1>6. Is(f)
  <2>1. \A n \in 0 .. N : n = 0 \/ n \in 1 .. N
    BY <1>1
  <2> HIDE DEF N, A
  <2>2. \A n \in 0 .. N : f[n] = IF n = 0 THEN FirstOffset(h) ELSE f[n - 1] + A(n)
    BY <1>5, <2>1
  <2> QED BY <1>5, <2>2
<1>7. OffsetAfter(h) = CHOOSE g : Is(g)
  BY DEF OffsetAfter
<1>8. Is(OffsetAfter(h))
  BY <1>6, <1>7
<1> DEFINE g == OffsetAfter(h)
<1>9. g[0] = FirstOffset(h) /\ \A n \in 1 .. N : g[n] = g[n - 1] + A(n)
  BY <1>1, <1>4, <1>8
<1>10. g = [n \in 0 .. N |-> g[n]]
  BY <1>8
<1> HIDE DEF g
<1>11. g \in [0 .. N -> Nat]
  <2>1. g[0] \in Nat /\ \A n \in 1 .. N : g[n - 1] \in Nat => g[n] \in Nat
    BY <1>1, <1>9
  <2> HIDE DEF N
  <2> QED BY <1>1, <1>10, <2>1, StaysIn
<1> QED BY <1>9, <1>11 DEF g

(* Offsets never fall, and a section ends before the offset that follows   *)
(* it.                                                                     *)
LEMMA OffsetsRise ==
  ASSUME NEW h \in Headers, PlausiblePage(PageOf(h))
  PROVE  LET N == Len(Order(h))
         IN  /\ \A n \in 0 .. N : OffsetAfter(h)[n] \in Nat
             /\ \A n \in 0 .. N : OffsetAfter(h)[n] >= PageOf(h)
             /\ \A m, n \in 0 .. N : m <= n => OffsetAfter(h)[m] <= OffsetAfter(h)[n]
             /\ \A n \in 1 .. N : OffsetAfter(h)[n - 1] + h.size[Order(h)[n]]
                                    <= OffsetAfter(h)[n]
<1> DEFINE N == Len(Order(h))
           g == OffsetAfter(h)
           size(n) == h.size[Order(h)[n]]
<1>1. N \in Nat /\ \A n \in 1 .. N : size(n) \in Nat
  BY OrderIs
<1>2. /\ PageOf(h) \in Nat \ {0}
      /\ FirstOffset(h) \in Nat /\ FirstOffset(h) >= PageOf(h)
  BY FirstIs
<1>3. /\ g \in [0 .. N -> Nat] /\ g[0] = FirstOffset(h)
      /\ \A n \in 1 .. N : g[n] = g[n - 1] + Align(size(n), PageOf(h))
  BY OffsetsAre
<1>4. \A n \in 1 .. N : Align(size(n), PageOf(h)) \in Nat /\ Align(size(n), PageOf(h)) >= size(n)
  BY <1>1, <1>2, AlignUp
<1> HIDE DEF N, g, size
<1>5. \A n \in 1 .. N : n - 1 \in 0 .. N /\ n \in 0 .. N
  BY <1>1
<1>6. \A n \in 1 .. N : g[n - 1] + size(n) <= g[n]
  BY <1>1, <1>3, <1>4, <1>5
<1>7. ASSUME NEW m \in 0 .. N
      PROVE  \A n \in 0 .. N : m <= n => g[m] <= g[n]
  <2> DEFINE S == {n \in 0 .. N : m <= n => g[m] <= g[n]}
  <2>1. 0 \in S
    BY <1>1, <1>3
  <2>2. ASSUME NEW n \in 1 .. N, n - 1 \in S PROVE n \in S
    <3>1. g[n - 1] \in Nat /\ g[n] \in Nat /\ g[m] \in Nat /\ size(n) \in Nat
      BY <1>1, <1>3, <1>5
    <3>2. g[n - 1] <= g[n]
      BY <1>6, <3>1
    <3>3. CASE m <= n - 1
      BY <2>2, <3>1, <3>2, <3>3, <1>5
    <3>4. CASE ~(m <= n - 1)
      BY <1>1, <1>5, <3>1, <3>4
    <3> QED BY <3>3, <3>4
  <2> HIDE DEF S
  <2>3. 0 .. N \subseteq S
    BY <1>1, <2>1, <2>2, Induct
  <2> QED BY <2>3 DEF S
<1>8. \A n \in 0 .. N : g[n] \in Nat /\ g[n] >= PageOf(h)
  <2>1. \A n \in 0 .. N : 0 \in 0 .. N /\ 0 <= n
    BY <1>1
  <2> QED BY <1>2, <1>3, <1>7, <2>1
<1> QED BY <1>6, <1>7, <1>8 DEF N, g, size

(* In an image whose header was accepted, no two sections share a byte and *)
(* none reaches into the header or past the end: what _replace_section and *)
(* the comparison of kernels slice is each section's own.                  *)
THEOREM SectionsNeverMeet == FSpec => []SectionsApart
<1>1. SeenOK => SectionsApart
  <2> DEFINE h == seen.header
             length == seen.length
             N == Len(Order(h))
             g == OffsetAfter(h)
             size(i) == h.size[Order(h)[i]]
             all == Sections(h, length)
  <2> SUFFICES ASSUME SeenOK, Has("header"), SpansHold(h, length, TRUE)
               PROVE  /\ \A s \in all : s.from >= PageOf(h) /\ s.to <= length
                      /\ \A s, t \in all : s # t => s.to <= t.from \/ t.to <= s.from
    BY DEF SectionsApart
  <2>1. h \in Headers /\ length \in Nat
    BY AHeader, FormatsAssumption
  <2>2. PlausiblePage(PageOf(h)) /\ \A i \in Stored(h) : Section(h, i).to <= length
    BY DEF SpansHold
  <2>3. /\ N \in Nat /\ DOMAIN Order(h) = 1 .. N
        /\ \A i \in 1 .. N : size(i) \in Nat
        /\ h.size["signature"] \in Nat
    BY <2>1, OrderIs
  <2>4. /\ PageOf(h) \in Nat
        /\ \A n \in 0 .. N : g[n] \in Nat /\ g[n] >= PageOf(h)
        /\ \A m, n \in 0 .. N : m <= n => g[m] <= g[n]
        /\ \A n \in 1 .. N : g[n - 1] + size(n) <= g[n]
    BY <2>1, <2>2, FirstIs, OffsetsRise
  (* Section n lies between two offsets, and the signature after the last. *)
  <2> DEFINE from == Offset(h, N + 1)
             signature == [from |-> from, to |-> from + h.size["signature"]]
             place(n) == IF n \in 1 .. N THEN Section(h, n) ELSE signature
             Within(s, n) == /\ s.from = g[n - 1] /\ s.to \in Nat /\ s.to <= length
                             /\ n \in 1 .. N => s.to <= g[n]
  <2>5. \A s \in all : \E n \in 1 .. N + 1 : s = place(n) /\ Within(s, n)
    <3>1. ASSUME NEW i \in Stored(h)
          PROVE  i \in 1 .. N + 1 /\ Section(h, i) = place(i) /\ Within(Section(h, i), i)
      <4>1. i \in 1 .. N /\ i \in 1 .. N + 1
        BY <2>3 DEF Stored
      <4>2. Section(h, i) = [from |-> g[i - 1], to |-> g[i - 1] + size(i)]
        BY DEF Section, Offset
      <4>3. i - 1 \in 0 .. N
        BY <2>3, <4>1
      <4> HIDE DEF g, size, N, h, length
      <4>4. g[i - 1] \in Nat /\ size(i) \in Nat
        BY <2>3, <2>4, <4>1, <4>3
      <4> QED BY <2>2, <2>4, <4>1, <4>2, <4>4
    <3>2. /\ N + 1 \in 1 .. N + 1 /\ signature = place(N + 1)
          /\ signature.to <= length => Within(signature, N + 1)
      <4>1. from = g[N + 1 - 1] /\ N + 1 - 1 = N /\ N \in 0 .. N /\ N + 1 \notin 1 .. N
        BY <2>3 DEF Offset
      <4> HIDE DEF g, N, h, length, from
      <4> QED BY <2>3, <2>4, <4>1
    <3>3. \A s \in all : \/ \E i \in Stored(h) : s = Section(h, i)
                         \/ s = signature /\ signature.to <= length
      BY DEF Sections
    <3> HIDE DEF Within, place, signature, all, N, h, length
    <3> QED BY <3>1, <3>2, <3>3
  <2> HIDE DEF place, all, N, h, length, g
  <2>6. \A s \in all : s.from >= PageOf(h) /\ s.to <= length
    <3> SUFFICES ASSUME NEW s \in all PROVE s.from >= PageOf(h) /\ s.to <= length
      OBVIOUS
    <3>1. PICK n \in 1 .. N + 1 : Within(s, n)
      BY <2>5
    <3>2. n - 1 \in 0 .. N
      BY <2>3
    <3> QED BY <2>4, <3>1, <3>2
  <2>7. ASSUME NEW s \in all, NEW t \in all, NEW m \in 1 .. N + 1, NEW n \in 1 .. N + 1,
               Within(s, m), Within(t, n), m < n
        PROVE  s.to <= t.from
    <3>1. m \in 1 .. N /\ m \in 0 .. N /\ n - 1 \in 0 .. N /\ m <= n - 1
      BY <2>3, <2>7
    <3>2. g[m] \in Nat /\ g[n - 1] \in Nat /\ g[m] <= g[n - 1]
      BY <2>4, <3>1
    <3>3. s.to \in Nat /\ s.to <= g[m] /\ t.from = g[n - 1]
      BY <2>7, <3>1
    <3> QED BY <3>2, <3>3
  <2>8. ASSUME NEW s \in all, NEW t \in all, s # t
        PROVE  s.to <= t.from \/ t.to <= s.from
    <3>1. PICK m \in 1 .. N + 1 : s = place(m) /\ Within(s, m)
      BY <2>5
    <3>2. PICK n \in 1 .. N + 1 : t = place(n) /\ Within(t, n)
      BY <2>5
    <3>3. m < n \/ n < m
      BY <2>3, <2>8, <3>1, <3>2
    <3> HIDE DEF Within
    <3> QED BY <2>7, <3>1, <3>2, <3>3
  <2> QED BY <2>6, <2>8
<1> QED BY <1>1, SeenIsOK, PTL

-----------------------------------------------------------------------------

(***************************************************************************)
(* Payloads  (firmware/payload.py).                                        *)
(***************************************************************************)

(* Extents as the manifest gives them.                                     *)
Extents == [start : Nat, num : Nat]
(* Operations as the manifest gives them.                                  *)
Operations == [type : STRING, data : Seq(Nat), extents : Seq(Extents)]

(* Blocks in bytes are a number.                                           *)
LEMMA Bytes == \A n \in Nat : Block * n \in Nat
  BY PayloadAssumption

(* The extents of an operation are numbers.                                *)
LEMMA ExtentsOf ==
  ASSUME NEW op \in Operations
  PROVE  /\ Len(op.extents) \in Nat /\ DOMAIN op.extents = 1 .. Len(op.extents)
         /\ \A k \in 1 .. Len(op.extents) :
              op.extents[k].start \in Nat /\ op.extents[k].num \in Nat
<1>1. op.extents \in Seq(Extents)
  BY DEF Operations
<1>2. \A k \in 1 .. Len(op.extents) : op.extents[k] \in Extents
  BY <1>1
<1> QED BY <1>1, <1>2 DEF Extents

(* The loop over an operation's extents counts the blocks before each.     *)
LEMMA BlocksAre ==
  ASSUME NEW op \in Operations
  PROVE  /\ BlocksOf(op) \in [0 .. Len(op.extents) -> Nat]
         /\ BlocksOf(op)[0] = 0
         /\ \A n \in 1 .. Len(op.extents) :
              BlocksOf(op)[n] = BlocksOf(op)[n - 1] + op.extents[n].num
<1> DEFINE N == Len(op.extents)
           num(n) == op.extents[n].num
           step == [x \in (1 .. N) \X Nat |-> x[2] + num(x[1])]
           Is(f) == f = [n \in 0 .. N |-> IF n = 0 THEN 0 ELSE f[n - 1] + num(n)]
           g == BlocksOf(op)
<1>1. N \in Nat /\ \A n \in 1 .. N : num(n) \in Nat
  BY ExtentsOf
<1>2. IsLoop(N, Nat, 0, step)
  BY <1>1 DEF IsLoop
<1>3. PICK f : IsRun(f, N, Nat, 0, step)
  <2> HIDE DEF step, N
  <2> QED BY <1>2, Loop
<1>4. \A n \in 1 .. N : n - 1 \in 0 .. N /\ n # 0 /\ n \in 0 .. N
  BY <1>1
<1>5. /\ f \in [0 .. N -> Nat] /\ f[0] = 0
      /\ \A n \in 1 .. N : f[n] = f[n - 1] + num(n)
  <2> HIDE DEF N, num
  <2>1. /\ f \in [0 .. N -> Nat] /\ f[0] = 0
        /\ \A n \in 1 .. N : f[n] = step[<<n, f[n - 1]>>]
    <3> HIDE DEF step
    <3> QED BY <1>3 DEF IsRun
  <2>2. \A n \in 1 .. N : step[<<n, f[n - 1]>>] = f[n - 1] + num(n)
    BY <1>4, <2>1
  <2> QED BY <2>1, <2>2
<1>6. Is(f)
  <2>1. \A n \in 0 .. N : n = 0 \/ n \in 1 .. N
    BY <1>1
  <2> HIDE DEF N, num
  <2>2. \A n \in 0 .. N : f[n] = IF n = 0 THEN 0 ELSE f[n - 1] + num(n)
    BY <1>5, <2>1
  <2> QED BY <1>5, <2>2
<1>7. g = CHOOSE f_ : Is(f_)
  BY DEF BlocksOf
<1>8. Is(g)
  BY <1>6, <1>7
<1>9. g[0] = 0 /\ \A n \in 1 .. N : g[n] = g[n - 1] + num(n)
  BY <1>1, <1>4, <1>8
<1>10. g = [n \in 0 .. N |-> g[n]]
  BY <1>8
<1> HIDE DEF g
<1>11. g \in [0 .. N -> Nat]
  <2>1. g[0] \in Nat /\ \A n \in 1 .. N : g[n - 1] \in Nat => g[n] \in Nat
    BY <1>1, <1>9
  <2> HIDE DEF N
  <2> QED BY <1>1, <1>10, <2>1, StaysIn
<1> QED BY <1>9, <1>11 DEF g

(* n zero bytes are n bytes, each of them zero.                            *)
LEMMA ZeroesAre ==
  ASSUME NEW n \in Nat
  PROVE  Zeroes(n) \in Seq(Nat) /\ Len(Zeroes(n)) = n /\ \A i \in 1 .. n : Zeroes(n)[i] = 0
  BY DEF Zeroes

(* What an operation reads, decompressed or zeroed, is bytes.              *)
LEMMA ChunkIs ==
  ASSUME NEW op \in Operations
  PROVE  Chunk(op) \in Seq(Nat)
<1>1. Len(op.extents) \in 0 .. Len(op.extents)
  BY ExtentsOf
<1>2. Block * BlocksOf(op)[Len(op.extents)] \in Nat
  BY <1>1, BlocksAre, Bytes
<1>3. Zeroes(Block * BlocksOf(op)[Len(op.extents)]) \in Seq(Nat)
  BY <1>2, ZeroesAre
<1>4. op.data \in Seq(Nat)
  BY DEF Operations
<1> QED BY <1>3, <1>4 DEF Chunk

(* Which bytes of the chunk extent k is given: as many as its blocks hold  *)
(* and the chunk still has (a slice past the end of a Python bytes object  *)
(* is short).                                                              *)
LEMMA PieceIs ==
  ASSUME NEW op \in Operations, NEW k \in 1 .. Len(op.extents)
  PROVE  LET from == Block * BlocksBefore(op, k)
             n    == Len(Piece(op, k))
         IN  /\ from \in Nat /\ Block * op.extents[k].num \in Nat
             /\ Piece(op, k) \in Seq(Nat)
             /\ \A j \in Nat \ {0} :
                  j <= n <=> j <= Block * op.extents[k].num /\ from + j <= Len(Chunk(op))
             /\ \A j \in 1 .. n : Piece(op, k)[j] = Chunk(op)[from + j]
<1> DEFINE from == Block * BlocksBefore(op, k)
           size == Block * op.extents[k].num
           chunk == Chunk(op)
           to   == IF from + size <= Len(chunk) THEN from + size ELSE Len(chunk)
<1>1. from \in Nat /\ size \in Nat
  <2>1. k - 1 \in 0 .. Len(op.extents)
    BY ExtentsOf
  <2> QED BY <2>1, ExtentsOf, BlocksAre, Bytes DEF BlocksBefore
<1>2. chunk \in Seq(Nat) /\ Len(chunk) \in Nat
  BY ChunkIs
<1>3. Piece(op, k) = SubSeq(chunk, from + 1, to)
  BY DEF Piece
<1> HIDE DEF from, size, chunk
<1>4. to \in Nat /\ to <= Len(chunk)
  BY <1>1, <1>2
<1>5. \A i \in from + 1 .. to : chunk[i] \in Nat
  BY <1>1, <1>2, <1>4
<1>6. from + 1 \in Int /\ to \in Int
  BY <1>1, <1>4
<1>7. /\ Piece(op, k) \in Seq(Nat)
      /\ Len(Piece(op, k)) = IF from + 1 <= to THEN to - (from + 1) + 1 ELSE 0
      /\ \A j \in 1 .. to - (from + 1) + 1 : Piece(op, k)[j] = chunk[from + 1 + j - 1]
  <2> HIDE DEF to
  <2> QED BY <1>3, <1>5, <1>6, SubSeqProperties
<1>8. \A j \in Nat \ {0} :
        j <= Len(Piece(op, k)) <=> j <= size /\ from + j <= Len(chunk)
  BY <1>1, <1>2, <1>7
<1>9. \A j \in 1 .. Len(Piece(op, k)) : Piece(op, k)[j] = chunk[from + j]
  <2> HIDE DEF to
  <2> SUFFICES ASSUME NEW j \in 1 .. Len(Piece(op, k)) PROVE Piece(op, k)[j] = chunk[from + j]
    OBVIOUS
  <2>1. j \in 1 .. to - (from + 1) + 1 /\ from + 1 + j - 1 = from + j
    BY <1>1, <1>4, <1>7
  <2> QED BY <1>7, <2>1
<1> QED BY <1>1, <1>7, <1>8, <1>9 DEF from, size, chunk

(* Byte i of a buffer, zero past its end.                                  *)
At(buffer, i) == IF i <= Len(buffer) THEN buffer[i] ELSE 0

(* Byte i once a piece lies over the buffer from start.                    *)
PutAt(buffer, start, piece, i) ==
  IF i > start /\ i <= start + Len(piece) THEN piece[i - start] ELSE At(buffer, i)

(* Seeking and writing changes the bytes under the piece, leaves the       *)
(* others, fills a gap with zeroes and never shortens the file.            *)
LEMMA PutIs ==
  ASSUME NEW b \in Seq(Nat), NEW start \in Nat, NEW p \in Seq(Nat)
  PROVE  /\ Put(b, start, p) \in Seq(Nat) /\ Len(Put(b, start, p)) >= Len(b)
         /\ \A i \in Nat \ {0} :
              At(Put(b, start, p), i) = PutAt(b, start, p, i)
<1> DEFINE n == IF start + Len(p) > Len(b) THEN start + Len(p) ELSE Len(b)
           value(i) == IF i > start /\ i <= start + Len(p) THEN p[i - start]
                       ELSE IF i <= Len(b) THEN b[i] ELSE 0
<1>1. Len(b) \in Nat /\ Len(p) \in Nat /\ n \in Nat /\ n >= Len(b) /\ n >= start + Len(p)
  OBVIOUS
<1>2. Put(b, start, p) = [i \in 1 .. n |-> value(i)]
  BY DEF Put
<1>3. \A i \in 1 .. n : value(i) \in Nat
  <2> SUFFICES ASSUME NEW i \in 1 .. n PROVE value(i) \in Nat
    OBVIOUS
  <2>1. CASE i > start /\ i <= start + Len(p)
    <3>1. i - start \in 1 .. Len(p)
      BY <1>1, <2>1
    <3> QED BY <2>1, <3>1
  <2>2. CASE ~(i > start /\ i <= start + Len(p))
    BY <1>1, <2>2
  <2> QED BY <2>1, <2>2
<1> HIDE DEF n, value
<1>4. Put(b, start, p) \in Seq(Nat) /\ Len(Put(b, start, p)) = n
  BY <1>1, <1>2, <1>3
<1>5. ASSUME NEW i \in Nat \ {0}
      PROVE  At(Put(b, start, p), i) = PutAt(b, start, p, i)
  <2>1. CASE i <= n
    <3>1. At(Put(b, start, p), i) = value(i)
      BY <1>1, <1>2, <1>4, <2>1 DEF At
    <3> QED BY <3>1 DEF value, At, PutAt
  <2>2. CASE ~(i <= n)
    BY <1>1, <1>4, <2>2 DEF At, PutAt
  <2> QED BY <2>1, <2>2
<1> QED BY <1>1, <1>4, <1>5

(* The loop that writes an operation's extents, one piece after the other. *)
LEMMA FilledIs ==
  ASSUME NEW op \in Operations, NEW buffer \in Seq(Nat)
  PROVE  /\ Filled(buffer, op) \in [0 .. Len(op.extents) -> Seq(Nat)]
         /\ Filled(buffer, op)[0] = buffer
         /\ \A n \in 1 .. Len(op.extents) :
              Filled(buffer, op)[n] =
                Put(Filled(buffer, op)[n - 1], Block * op.extents[n].start, Piece(op, n))
<1> DEFINE N == Len(op.extents)
           put(b, n) == Put(b, Block * op.extents[n].start, Piece(op, n))
           T == Seq(Nat)
           step == [x \in (1 .. N) \X T |-> put(x[2], x[1])]
           Is(f) == f = [n \in 0 .. N |-> IF n = 0 THEN buffer ELSE put(f[n - 1], n)]
           g == Filled(buffer, op)
<1>1. N \in Nat /\ \A n \in 1 .. N : \A b \in T : put(b, n) \in T
  <2>1. \A n \in 1 .. N : Block * op.extents[n].start \in Nat /\ Piece(op, n) \in Seq(Nat)
    BY ExtentsOf, Bytes, PieceIs
  <2> QED BY <2>1, PutIs, ExtentsOf
<1> HIDE DEF put, T
<1>2. IsLoop(N, T, buffer, step)
  BY <1>1 DEF IsLoop, T
<1>3. PICK f : IsRun(f, N, T, buffer, step)
  <2> HIDE DEF step, N
  <2> QED BY <1>2, Loop
<1>4. \A n \in 1 .. N : n - 1 \in 0 .. N /\ n # 0 /\ n \in 0 .. N
  BY <1>1
<1>5. /\ f \in [0 .. N -> T] /\ f[0] = buffer
      /\ \A n \in 1 .. N : f[n] = put(f[n - 1], n)
  <2> HIDE DEF N
  <2>1. /\ f \in [0 .. N -> T] /\ f[0] = buffer
        /\ \A n \in 1 .. N : f[n] = step[<<n, f[n - 1]>>]
    <3> HIDE DEF step
    <3> QED BY <1>3 DEF IsRun
  <2>2. \A n \in 1 .. N : step[<<n, f[n - 1]>>] = put(f[n - 1], n)
    BY <1>4, <2>1
  <2> QED BY <2>1, <2>2
<1>6. Is(f)
  <2>1. \A n \in 0 .. N : n = 0 \/ n \in 1 .. N
    BY <1>1
  <2> HIDE DEF N
  <2>2. \A n \in 0 .. N : f[n] = IF n = 0 THEN buffer ELSE put(f[n - 1], n)
    BY <1>5, <2>1
  <2> QED BY <1>5, <2>2
<1>7. g = CHOOSE f_ : Is(f_)
  BY DEF Filled, put
<1>8. Is(g)
  BY <1>6, <1>7
<1>9. g[0] = buffer /\ \A n \in 1 .. N : g[n] = put(g[n - 1], n)
  <2>1. \A n \in 0 .. N : g[n] = IF n = 0 THEN buffer ELSE put(g[n - 1], n)
    <3> HIDE DEF N
    <3> QED BY <1>8
  <2> HIDE DEF g
  <2> QED BY <1>1, <1>4, <2>1
<1>10. g = [n \in 0 .. N |-> g[n]]
  BY <1>8
<1> HIDE DEF g
<1>11. g \in [0 .. N -> T]
  <2>1. g[0] \in T /\ \A n \in 1 .. N : g[n - 1] \in T => g[n] \in T
    BY <1>1, <1>9 DEF T
  <2> HIDE DEF N
  <2> QED BY <1>1, <1>10, <2>1, StaysIn
<1> QED BY <1>9, <1>11 DEF g, put, T

(* Byte i as extent k of the operation puts it down.                       *)
Laid(op, k, i) == Chunk(op)[Block * BlocksBefore(op, k) + InPiece(op, k, i)]

(* After n extents, a byte that any of them covers is as the last of these *)
(* put it, and a byte that none covers is as it was.                       *)
LEMMA LastExtentWins ==
  ASSUME NEW op \in Operations, NEW buffer \in Seq(Nat), NEW i \in Nat \ {0}
  PROVE  \A n \in 0 .. Len(op.extents) :
           \/ /\ \A k \in Covers(op, i) : k > n
              /\ At(Filled(buffer, op)[n], i) = At(buffer, i)
           \/ \E k \in Covers(op, i) :
                /\ k <= n /\ \A l \in Covers(op, i) : l <= n => l <= k
                /\ At(Filled(buffer, op)[n], i) = Laid(op, k, i)
<1> DEFINE N == Len(op.extents)
           F == Filled(buffer, op)
           C == Covers(op, i)
           Untouched(n) == (\A k \in C : k > n) /\ At(F[n], i) = At(buffer, i)
           Latest(k, n) == /\ k <= n /\ \A l \in C : l <= n => l <= k
                         /\ At(F[n], i) = Laid(op, k, i)
           S == {n \in 0 .. N : Untouched(n) \/ \E k \in C : Latest(k, n)}
<1>1. N \in Nat /\ C \subseteq 1 .. N
  BY ExtentsOf DEF Covers
<1>2. /\ F \in [0 .. N -> Seq(Nat)] /\ F[0] = buffer
      /\ \A n \in 1 .. N : F[n] = Put(F[n - 1], Block * op.extents[n].start, Piece(op, n))
  BY FilledIs
<1>3. 0 \in S
  BY <1>1, <1>2
<1>4. ASSUME NEW n \in 1 .. N, n - 1 \in S PROVE n \in S
  <2> DEFINE start == Block * op.extents[n].start
             p == Piece(op, n)
             from == Block * BlocksBefore(op, n)
  <2>1. n - 1 \in 0 .. N /\ n \in 0 .. N /\ n \in DOMAIN op.extents
    BY <1>1, ExtentsOf
  <2>2. start \in Nat /\ p \in Seq(Nat) /\ F[n - 1] \in Seq(Nat)
    BY <1>2, <2>1, ExtentsOf, Bytes, PieceIs
  <2>3. At(F[n], i) = IF i > start /\ i <= start + Len(p) THEN p[i - start] ELSE At(F[n - 1], i)
    <3>1. F[n] = Put(F[n - 1], start, p)
      BY <1>2
    <3> HIDE DEF F, start, p
    <3>2. At(F[n], i) = PutAt(F[n - 1], start, p, i)
      BY <2>2, <3>1, PutIs
    <3> QED BY <3>2 DEF PutAt
  <2>4. InPiece(op, n, i) = i - start
    BY DEF InPiece
  <2>5. n \in C <=> i > start /\ i <= start + Len(p)
    <3>1. n \in C <=> /\ i - start \in 1 .. Block * op.extents[n].num
                      /\ from + (i - start) <= Len(Chunk(op))
      <4>1. Covers(op, i) =
              {k \in DOMAIN op.extents :
                 /\ InPiece(op, k, i) \in 1 .. Block * op.extents[k].num
                 /\ Block * BlocksBefore(op, k) + InPiece(op, k, i) <= Len(Chunk(op))}
        BY DEF Covers
      <4> HIDE DEF start
      <4> QED BY <2>1, <2>4, <4>1
    <3>2. /\ Block * op.extents[n].num \in Nat /\ from \in Nat
          /\ \A j \in Nat \ {0} :
               j <= Len(p) <=> j <= Block * op.extents[n].num /\ from + j <= Len(Chunk(op))
      BY PieceIs
    <3>3. Len(p) \in Nat
      BY <2>2
    <3>4. CASE i > start
      <4>1. i - start \in Nat \ {0}
        BY <2>2, <3>4
      <4>2. i - start <= Len(p) <=> i <= start + Len(p)
        BY <2>2, <3>3
      <4> HIDE DEF start, p, from, C
      <4> QED BY <3>1, <3>2, <3>4, <4>1, <4>2
    <3>5. CASE ~(i > start)
      <4> HIDE DEF p, from, C
      <4> QED BY <2>2, <3>1, <3>2, <3>5
    <3> QED BY <3>4, <3>5
  <2>6. CASE n \in C
    <3>1. At(F[n], i) = p[i - start] /\ i - start \in 1 .. Len(p)
      <4>1. Len(p) \in Nat
        BY <2>2
      <4> HIDE DEF C, F, start, p
      <4> QED BY <2>2, <2>3, <2>5, <2>6, <4>1
    <3>2. p[i - start] = Chunk(op)[from + (i - start)]
      <4> HIDE DEF start
      <4> QED BY <3>1, PieceIs
    <3>3. At(F[n], i) = Laid(op, n, i)
      BY <2>4, <3>1, <3>2 DEF Laid
    <3>4. Latest(n, n)
      BY <3>3
    <3> HIDE DEF C, Latest, Untouched
    <3> QED BY <2>1, <2>6, <3>4
  <2>7. CASE n \notin C
    <3>1. At(F[n], i) = At(F[n - 1], i)
      <4> HIDE DEF C, F, start, p
      <4> QED BY <2>3, <2>5, <2>7
    <3>2. \A k \in C : (k > n - 1 <=> k > n) /\ (k <= n - 1 <=> k <= n)
      <4> SUFFICES ASSUME NEW k \in C PROVE (k > n - 1 <=> k > n) /\ (k <= n - 1 <=> k <= n)
        OBVIOUS
      <4>1. k \in Nat /\ k # n /\ n \in Nat
        BY <1>1, <2>7
      <4> HIDE DEF C
      <4> QED BY <4>1
    <3>3. Untouched(n - 1) => Untouched(n)
      <4> HIDE DEF C, F
      <4> QED BY <3>1, <3>2
    <3>4. \A k \in C : Latest(k, n - 1) => Latest(k, n)
      <4> HIDE DEF C, F
      <4> QED BY <3>1, <3>2
    <3> HIDE DEF C, Latest, Untouched
    <3> QED BY <1>4, <2>1, <3>3, <3>4
  <2> QED BY <2>6, <2>7
<1> HIDE DEF S
<1>5. 0 .. N \subseteq S
  BY <1>1, <1>3, <1>4, Induct
<1>6. \A n \in 0 .. N : Untouched(n) \/ \E k \in C : Latest(k, n)
  BY <1>5 DEF S
<1> QED BY <1>6

(* A member that is above all others is the maximum.                       *)
LEMMA MaxIs ==
  ASSUME NEW S \in SUBSET Int, NEW m \in S, \A l \in S : l <= m
  PROVE  Max(S) = m
<1>1. \A x \in S : (\A y \in S : x >= y) <=> x = m
  OBVIOUS
<1> QED BY <1>1 DEF Max

(* An operation gives the bytes it covers, leaves the others and never     *)
(* shortens the file.                                                      *)
LEMMA ApplyIs ==
  ASSUME NEW op \in Operations, NEW buffer \in Seq(Nat)
  PROVE  /\ Apply(buffer, op) \in Seq(Nat) /\ Len(Apply(buffer, op)) >= Len(buffer)
         /\ \A i \in Nat \ {0} :
              At(Apply(buffer, op), i) =
                IF Covers(op, i) = {} THEN At(buffer, i) ELSE Given(op, i)
<1> DEFINE N == Len(op.extents)
           F == Filled(buffer, op)
<1>1. N \in Nat /\ N \in 0 .. N /\ DOMAIN op.extents = 1 .. N
  BY ExtentsOf
<1>2. /\ F \in [0 .. N -> Seq(Nat)] /\ F[0] = buffer
      /\ \A n \in 1 .. N : F[n] = Put(F[n - 1], Block * op.extents[n].start, Piece(op, n))
  BY FilledIs
<1>3. Apply(buffer, op) = F[N]
  BY DEF Apply
<1> HIDE DEF F
<1>4. Len(F[N]) >= Len(buffer)
  <2> DEFINE S == {n \in 0 .. N : Len(F[n]) >= Len(buffer)}
  <2>1. 0 \in S
    <3>1. Len(buffer) \in Nat
      OBVIOUS
    <3> QED BY <1>1, <1>2, <3>1
  <2>2. ASSUME NEW n \in 1 .. N, n - 1 \in S PROVE n \in S
    <3>1. n - 1 \in 0 .. N /\ n \in 0 .. N
      BY <1>1
    <3>2. F[n - 1] \in Seq(Nat) /\ F[n] \in Seq(Nat)
      BY <1>2, <3>1
    <3>3. Block * op.extents[n].start \in Nat /\ Piece(op, n) \in Seq(Nat)
      BY ExtentsOf, Bytes, PieceIs
    <3>4. Len(F[n]) >= Len(F[n - 1])
      BY <1>2, <3>2, <3>3, PutIs
    <3>5. Len(F[n]) \in Nat /\ Len(F[n - 1]) \in Nat /\ Len(buffer) \in Nat
      BY <3>2
    <3> QED BY <2>2, <3>1, <3>4, <3>5
  <2> HIDE DEF S, N
  <2>3. 0 .. N \subseteq S
    BY <1>1, <2>1, <2>2, Induct
  <2> QED BY <1>1, <2>3 DEF S
<1>5. ASSUME NEW i \in Nat \ {0}
      PROVE  At(F[N], i) = IF Covers(op, i) = {} THEN At(buffer, i) ELSE Given(op, i)
  <2>1. Covers(op, i) \subseteq 1 .. N
    BY <1>1 DEF Covers
  <2>2. \/ /\ \A k \in Covers(op, i) : k > N
           /\ At(F[N], i) = At(buffer, i)
        \/ \E k \in Covers(op, i) :
             /\ k <= N /\ \A l \in Covers(op, i) : l <= N => l <= k
             /\ At(F[N], i) = Laid(op, k, i)
    BY <1>1, LastExtentWins DEF F
  <2>3. CASE Covers(op, i) = {}
    BY <2>2, <2>3
  <2>4. CASE Covers(op, i) # {}
    <3> DEFINE C == Covers(op, i)
    <3>1. \A k \in C : k <= N /\ ~(k > N) /\ k \in Int
      BY <1>1, <2>1
    <3> HIDE DEF C
    <3>2. PICK k \in C : (\A l \in C : l <= k) /\ At(F[N], i) = Laid(op, k, i)
      BY <2>2, <2>4, <3>1 DEF C
    <3>3. Max(C) = k
      <4>1. C \in SUBSET Int
        BY <3>1
      <4> QED BY <3>2, <4>1, MaxIs
    <3> QED BY <2>4, <3>2, <3>3 DEF C, Given, Laid
  <2> QED BY <2>3, <2>4
<1>6. F[N] \in Seq(Nat)
  BY <1>1, <1>2
<1> QED BY <1>3, <1>4, <1>5, <1>6

(* The loop over a partition's operations.                                 *)
LEMMA WrittenIs ==
  ASSUME NEW size \in Nat, NEW ops \in Seq(Operations)
  PROVE  /\ Written(size, ops) \in [0 .. Len(ops) -> Seq(Nat)]
         /\ Written(size, ops)[0] = Zeroes(size)
         /\ \A n \in 1 .. Len(ops) :
              Written(size, ops)[n] = Apply(Written(size, ops)[n - 1], ops[n])
<1> DEFINE N == Len(ops)
           put(b, n) == Apply(b, ops[n])
           T == Seq(Nat)
           step == [x \in (1 .. N) \X T |-> put(x[2], x[1])]
           Is(f) == f = [n \in 0 .. N |-> IF n = 0 THEN Zeroes(size) ELSE put(f[n - 1], n)]
           g == Written(size, ops)
<1>1. /\ N \in Nat /\ Zeroes(size) \in T
      /\ \A n \in 1 .. N : \A b \in T : put(b, n) \in T
  <2>1. \A n \in 1 .. N : ops[n] \in Operations
    OBVIOUS
  <2> QED BY <2>1, ApplyIs, ZeroesAre
<1> HIDE DEF put, T
<1>2. IsLoop(N, T, Zeroes(size), step)
  BY <1>1 DEF IsLoop
<1>3. PICK f : IsRun(f, N, T, Zeroes(size), step)
  <2> HIDE DEF step, N
  <2> QED BY <1>2, Loop
<1>4. \A n \in 1 .. N : n - 1 \in 0 .. N /\ n # 0 /\ n \in 0 .. N
  BY <1>1
<1>5. /\ f \in [0 .. N -> T] /\ f[0] = Zeroes(size)
      /\ \A n \in 1 .. N : f[n] = put(f[n - 1], n)
  <2> HIDE DEF N
  <2>1. /\ f \in [0 .. N -> T] /\ f[0] = Zeroes(size)
        /\ \A n \in 1 .. N : f[n] = step[<<n, f[n - 1]>>]
    <3> HIDE DEF step
    <3> QED BY <1>3 DEF IsRun
  <2>2. \A n \in 1 .. N : step[<<n, f[n - 1]>>] = put(f[n - 1], n)
    BY <1>4, <2>1
  <2> QED BY <2>1, <2>2
<1>6. Is(f)
  <2>1. \A n \in 0 .. N : n = 0 \/ n \in 1 .. N
    BY <1>1
  <2> HIDE DEF N
  <2>2. \A n \in 0 .. N : f[n] = IF n = 0 THEN Zeroes(size) ELSE put(f[n - 1], n)
    BY <1>5, <2>1
  <2> QED BY <1>5, <2>2
<1>7. g = CHOOSE f_ : Is(f_)
  BY DEF Written, put
<1>8. Is(g)
  BY <1>6, <1>7
<1>9. g[0] = Zeroes(size) /\ \A n \in 1 .. N : g[n] = put(g[n - 1], n)
  <2>1. \A n \in 0 .. N : g[n] = IF n = 0 THEN Zeroes(size) ELSE put(g[n - 1], n)
    <3> HIDE DEF N
    <3> QED BY <1>8
  <2> HIDE DEF g
  <2> QED BY <1>1, <1>4, <2>1
<1>10. g = [n \in 0 .. N |-> g[n]]
  BY <1>8
<1> HIDE DEF g
<1>11. g \in [0 .. N -> T]
  <2>1. g[0] \in T /\ \A n \in 1 .. N : g[n - 1] \in T => g[n] \in T
    BY <1>1, <1>9
  <2> HIDE DEF N
  <2> QED BY <1>1, <1>10, <2>1, StaysIn
<1> QED BY <1>9, <1>11 DEF g, put, T

(* After n operations, a byte that any of them covers is as the last of    *)
(* these gave it, and a byte that none covers is zero (the file was        *)
(* truncated to its size first).                                           *)
LEMMA LastOperationWins ==
  ASSUME NEW size \in Nat, NEW ops \in Seq(Operations), NEW i \in Nat \ {0}
  PROVE  \A n \in 0 .. Len(ops) :
           \/ /\ \A j \in 1 .. Len(ops) : Covers(ops[j], i) # {} => j > n
              /\ At(Written(size, ops)[n], i) = 0
           \/ \E j \in 1 .. Len(ops) :
                /\ Covers(ops[j], i) # {} /\ j <= n
                /\ \A l \in 1 .. Len(ops) : Covers(ops[l], i) # {} /\ l <= n => l <= j
                /\ At(Written(size, ops)[n], i) = Given(ops[j], i)
<1> DEFINE N == Len(ops)
           F == Written(size, ops)
           Over(j) == Covers(ops[j], i) # {}
           Untouched(n) == (\A j \in 1 .. N : Over(j) => j > n) /\ At(F[n], i) = 0
           Latest(j, n) == /\ Over(j) /\ j <= n
                         /\ \A l \in 1 .. N : Over(l) /\ l <= n => l <= j
                         /\ At(F[n], i) = Given(ops[j], i)
           S == {n \in 0 .. N : Untouched(n) \/ \E j \in 1 .. N : Latest(j, n)}
<1>1. N \in Nat /\ \A n \in 1 .. N : ops[n] \in Operations
  OBVIOUS
<1>2. /\ F \in [0 .. N -> Seq(Nat)] /\ F[0] = Zeroes(size)
      /\ \A n \in 1 .. N : F[n] = Apply(F[n - 1], ops[n])
  BY WrittenIs
<1>3. 0 \in S
  <2>1. At(Zeroes(size), i) = 0
    BY ZeroesAre DEF At
  <2> HIDE DEF F, Over
  <2> QED BY <1>1, <1>2, <2>1
<1>4. ASSUME NEW n \in 1 .. N, n - 1 \in S PROVE n \in S
  <2>1. n - 1 \in 0 .. N /\ n \in 0 .. N
    BY <1>1
  <2>2. At(F[n], i) = IF Over(n) THEN Given(ops[n], i) ELSE At(F[n - 1], i)
    <3>1. F[n - 1] \in Seq(Nat) /\ F[n] = Apply(F[n - 1], ops[n]) /\ ops[n] \in Operations
      BY <1>1, <1>2, <2>1
    <3> HIDE DEF F
    <3> QED BY <3>1, ApplyIs
  <2> HIDE DEF Over, F
  <2>3. CASE Over(n)
    <3>1. Latest(n, n)
      BY <2>2, <2>3
    <3> HIDE DEF Latest, Untouched
    <3> QED BY <2>1, <3>1
  <2>4. CASE ~Over(n)
    <3>1. \A j \in 1 .. N : Over(j) => (j > n - 1 <=> j > n) /\ (j <= n - 1 <=> j <= n)
      <4> SUFFICES ASSUME NEW j \in 1 .. N, Over(j)
                   PROVE  (j > n - 1 <=> j > n) /\ (j <= n - 1 <=> j <= n)
        OBVIOUS
      <4>1. j # n /\ j \in Nat /\ n \in Nat
        BY <1>1, <2>4
      <4> QED BY <4>1
    <3>2. Untouched(n - 1) => Untouched(n)
      BY <2>2, <2>4, <3>1
    <3>3. \A j \in 1 .. N : Latest(j, n - 1) => Latest(j, n)
      BY <2>2, <2>4, <3>1
    <3> HIDE DEF Latest, Untouched
    <3> QED BY <1>4, <2>1, <3>2, <3>3
  <2> QED BY <2>3, <2>4
<1> HIDE DEF S
<1>5. 0 .. N \subseteq S
  BY <1>1, <1>3, <1>4, Induct
<1>6. \A n \in 0 .. N : Untouched(n) \/ \E j \in 1 .. N : Latest(j, n)
  BY <1>5 DEF S
<1> QED BY <1>6

(* An extracted partition has the size the manifest states, and every byte *)
(* of it is what the last operation over it says, or zero; what an         *)
(* operation put past that size is gone (payload.py's extract).            *)
THEOREM ExtractsRight == FSpec => []ExtractsWhatItSays
<1>1. SeenOK => ExtractsWhatItSays
  <2> DEFINE size == seen.payload.size
             ops == seen.payload.ops
             N == Len(ops)
             buffer == Written(size, ops)[N]
             image == Extract(size, ops)
  <2> SUFFICES ASSUME SeenOK, Has("payload"), size > 0
               PROVE  /\ Len(image) = size
                      /\ \A i \in DOMAIN image :
                           image[i] = IF \A j \in DOMAIN ops : Covers(ops[j], i) = {} THEN 0
                                      ELSE Given(ops[LastOver(ops, i)], i)
    BY DEF ExtractsWhatItSays
  <2>1. size \in Nat /\ ops \in Seq(Operations)
    BY PayloadOf, FormatsAssumption DEF AllPayloads, Operations, Extents
  <2>2. N \in Nat /\ N \in 0 .. N /\ DOMAIN ops = 1 .. N
    BY <2>1
  <2>3. image = SubSeq(buffer, 1, size)
    BY <2>1 DEF Extract
  <2> HIDE DEF size, ops, image, N
  <2>4. buffer \in Seq(Nat) /\ Len(buffer) >= size
    <3> DEFINE F == Written(size, ops)
               S == {n \in 0 .. N : Len(F[n]) >= size}
    <3>1. /\ F \in [0 .. N -> Seq(Nat)] /\ F[0] = Zeroes(size)
          /\ \A n \in 1 .. N : F[n] = Apply(F[n - 1], ops[n])
      BY <2>1, WrittenIs DEF N
    <3> HIDE DEF F
    <3>2. 0 \in S
      BY <2>1, <2>2, <3>1, ZeroesAre
    <3>3. ASSUME NEW n \in 1 .. N, n - 1 \in S PROVE n \in S
      <4>1. n - 1 \in 0 .. N /\ n \in 0 .. N /\ ops[n] \in Operations
        BY <2>1, <2>2
      <4>2. F[n - 1] \in Seq(Nat) /\ F[n] \in Seq(Nat)
        BY <3>1, <4>1
      <4>3. Len(F[n]) >= Len(F[n - 1])
        BY <3>1, <4>1, <4>2, ApplyIs
      <4>4. Len(F[n]) \in Nat /\ Len(F[n - 1]) \in Nat
        BY <4>2
      <4> QED BY <2>1, <3>3, <4>1, <4>3, <4>4
    <3> HIDE DEF S
    <3>4. 0 .. N \subseteq S
      BY <2>2, <3>2, <3>3, Induct
    <3> QED BY <2>2, <3>1, <3>4 DEF S, F
  <2> HIDE DEF buffer
  <2>5. /\ Len(image) = size
        /\ \A i \in 1 .. size : image[i] = buffer[i] /\ image[i] = At(buffer, i)
    <3>1. Len(buffer) \in Nat /\ \A i \in 1 .. size : buffer[i] \in Nat
      BY <2>1, <2>4
    <3>2. /\ Len(image) = IF 1 <= size THEN size - 1 + 1 ELSE 0
          /\ \A i \in 1 .. size - 1 + 1 : image[i] = buffer[1 + i - 1]
      <4>1. 1 \in Int /\ size \in Int
        BY <2>1
      <4> QED BY <2>3, <3>1, <4>1, SubSeqProperties
    <3> QED BY <2>1, <2>4, <3>1, <3>2 DEF At
  <2>6. DOMAIN image = 1 .. size
    <3>1. image \in Seq(Nat)
      <4>1. 1 \in Int /\ size \in Int /\ \A i \in 1 .. size : buffer[i] \in Nat
        BY <2>1, <2>4
      <4> QED BY <2>3, <4>1, SubSeqProperties
    <3> QED BY <2>5, <3>1
  <2>7. ASSUME NEW i \in 1 .. size
        PROVE  image[i] = IF \A j \in DOMAIN ops : Covers(ops[j], i) = {} THEN 0
                          ELSE Given(ops[LastOver(ops, i)], i)
    <3>1. i \in Nat \ {0} /\ image[i] = At(buffer, i)
      BY <2>1, <2>5
    <3>2. \/ /\ \A j \in 1 .. N : Covers(ops[j], i) # {} => j > N
             /\ At(buffer, i) = 0
          \/ \E j \in 1 .. N :
               /\ Covers(ops[j], i) # {} /\ j <= N
               /\ \A l \in 1 .. N : Covers(ops[l], i) # {} /\ l <= N => l <= j
               /\ At(buffer, i) = Given(ops[j], i)
      BY <2>1, <2>2, <3>1, LastOperationWins DEF N, buffer
    <3>3. \A j \in 1 .. N : j <= N /\ ~(j > N) /\ j \in Int
      BY <2>2
    <3>4. CASE \A j \in DOMAIN ops : Covers(ops[j], i) = {}
      BY <2>2, <3>1, <3>2, <3>4
    <3>5. CASE ~(\A j \in DOMAIN ops : Covers(ops[j], i) = {})
      <4> DEFINE over == {j \in DOMAIN ops : Covers(ops[j], i) # {}}
      <4>1. PICK j \in over : (\A l \in over : l <= j) /\ At(buffer, i) = Given(ops[j], i)
        BY <2>2, <3>2, <3>3, <3>5
      <4>2. over \in SUBSET Int
        BY <2>2, <3>3
      <4> HIDE DEF over
      <4>3. Max(over) = j
        BY <4>1, <4>2, MaxIs
      <4> QED BY <3>1, <3>5, <4>1, <4>3 DEF LastOver, over
    <3> QED BY <3>4, <3>5
  <2> QED BY <2>5, <2>6, <2>7
<1> QED BY <1>1, SeenIsOK, PTL

-----------------------------------------------------------------------------

(***************************************************************************)
(* Messages  (firmware/protobuf.py).                                       *)
(***************************************************************************)

(* A byte as the decoder sees it: seven bits, and whether more follow.     *)
Byte == [digit : 0 .. Radix - 1, more : BOOLEAN]

(* What the varint loop keeps: the value so far and the weight of the next *)
(* digit.                                                                  *)
Readings == [value : Nat, weight : Nat]

(* A byte's digit is a number.                                             *)
LEMMA ByteIs == \A b \in Byte : b.digit \in Nat /\ b.more \in BOOLEAN
  BY PayloadAssumption DEF Byte

(* The varint loop keeps numbers.                                          *)
LEMMA ReadingIs ==
  ASSUME NEW digits \in Seq(Byte)
  PROVE  Reading(digits) \in [0 .. Len(digits) -> Readings]
<1> DEFINE N == Len(digits)
           next(r, n) == [value |-> r.value + digits[n].digit * r.weight,
                          weight |-> r.weight * Radix]
           zero == [value |-> 0, weight |-> 1]
           step == [x \in (1 .. N) \X Readings |-> next(x[2], x[1])]
           Is(f) == f = [n \in 0 .. N |-> IF n = 0 THEN zero ELSE next(f[n - 1], n)]
           g == Reading(digits)
<1>1. /\ N \in Nat /\ zero \in Readings
      /\ \A n \in 1 .. N : \A r \in Readings : next(r, n) \in Readings
  <2>1. \A n \in 1 .. N : digits[n].digit \in Nat
    <3>1. \A n \in 1 .. N : digits[n] \in Byte
      OBVIOUS
    <3> QED BY <3>1, ByteIs
  <2>2. \A a, b, c \in Nat : a + b * c \in Nat /\ c * Radix \in Nat
    BY PayloadAssumption
  <2>3. ASSUME NEW n \in 1 .. N, NEW r \in Readings PROVE next(r, n) \in Readings
    <3>1. r.value \in Nat /\ r.weight \in Nat
      BY DEF Readings
    <3>2. /\ r.value + digits[n].digit * r.weight \in Nat
          /\ r.weight * Radix \in Nat
      BY <2>1, <2>2, <3>1
    <3> QED BY <3>2 DEF Readings
  <2>4. N \in Nat /\ zero \in Readings
    BY DEF Readings
  <2> QED BY <2>3, <2>4
<1> HIDE DEF next, zero
<1>2. IsLoop(N, Readings, zero, step)
  BY <1>1 DEF IsLoop
<1>3. PICK f : IsRun(f, N, Readings, zero, step)
  <2> HIDE DEF step, N
  <2> QED BY <1>2, Loop
<1>4. \A n \in 1 .. N : n - 1 \in 0 .. N /\ n # 0 /\ n \in 0 .. N
  BY <1>1
<1>5. /\ f \in [0 .. N -> Readings] /\ f[0] = zero
      /\ \A n \in 1 .. N : f[n] = next(f[n - 1], n)
  <2> HIDE DEF N
  <2>1. /\ f \in [0 .. N -> Readings] /\ f[0] = zero
        /\ \A n \in 1 .. N : f[n] = step[<<n, f[n - 1]>>]
    <3> HIDE DEF step
    <3> QED BY <1>3 DEF IsRun
  <2>2. \A n \in 1 .. N : step[<<n, f[n - 1]>>] = next(f[n - 1], n)
    BY <1>4, <2>1
  <2> QED BY <2>1, <2>2
<1>6. Is(f)
  <2>1. \A n \in 0 .. N : n = 0 \/ n \in 1 .. N
    BY <1>1
  <2> HIDE DEF N
  <2>2. \A n \in 0 .. N : f[n] = IF n = 0 THEN zero ELSE next(f[n - 1], n)
    BY <1>5, <2>1
  <2> QED BY <1>5, <2>2
<1>7. g = CHOOSE f_ : Is(f_)
  BY DEF Reading, next, zero
<1>8. Is(g)
  BY <1>6, <1>7
<1>9. g[0] = zero /\ \A n \in 1 .. N : g[n] = next(g[n - 1], n)
  <2>1. \A n \in 0 .. N : g[n] = IF n = 0 THEN zero ELSE next(g[n - 1], n)
    <3> HIDE DEF N
    <3> QED BY <1>8
  <2> HIDE DEF g
  <2> QED BY <1>1, <1>4, <2>1
<1>10. g = [n \in 0 .. N |-> g[n]]
  BY <1>8
<1> HIDE DEF g
<1>11. g \in [0 .. N -> Readings]
  <2>1. g[0] \in Readings /\ \A n \in 1 .. N : g[n - 1] \in Readings => g[n] \in Readings
    BY <1>1, <1>9
  <2> HIDE DEF N
  <2> QED BY <1>1, <1>10, <2>1, StaysIn
<1> QED BY <1>11 DEF g

(* The numbers of digits after which a varint ends.                        *)
Ends(bytes, pos) ==
  {n \in 1 .. Digits : /\ pos + n - 1 <= Len(bytes)
                       /\ ~bytes[pos + n - 1].more
                       /\ \A m \in 1 .. (n - 1) : bytes[pos + m - 1].more}

(* There is at most one: a varint ends at its first byte without a         *)
(* continuation bit.                                                       *)
LEMMA OneEnd ==
  ASSUME NEW bytes \in Seq(Byte), NEW pos \in Nat \ {0},
         NEW m \in Ends(bytes, pos), NEW n \in Ends(bytes, pos)
  PROVE  m = n
<1>1. \A k, l \in Ends(bytes, pos) : ~(k < l)
  <2> SUFFICES ASSUME NEW k \in Ends(bytes, pos), NEW l \in Ends(bytes, pos), k < l
               PROVE  FALSE
    OBVIOUS
  <2>1. k \in Nat /\ l \in Nat /\ k \in 1 .. (l - 1)
    BY PayloadAssumption DEF Ends
  <2> QED BY <2>1 DEF Ends
<1>2. m \in Nat /\ n \in Nat
  BY PayloadAssumption DEF Ends
<1>3. ~(m < n) /\ ~(n < m)
  BY <1>1
<1> QED BY <1>2, <1>3

(* A varint is an error, or it ends within the message and its value is a  *)
(* number.                                                                 *)
LEMMA VarintIs ==
  ASSUME NEW bytes \in Seq(Byte), NEW pos \in Nat \ {0}
  PROVE  LET v == Varint(bytes, pos)
         IN  \/ Ends(bytes, pos) = {} /\ v = Bad
             \/ \E n \in Ends(bytes, pos) :
                  /\ v = [ok |-> TRUE, next |-> pos + n,
                          value |-> Reading(SubSeq(bytes, pos, pos + n - 1))[n].value]
                  /\ v.next \in Nat /\ v.next > pos /\ v.next <= Len(bytes) + 1
                  /\ v.value \in Nat
<1> DEFINE n == CHOOSE m \in Ends(bytes, pos) : TRUE
           digits == SubSeq(bytes, pos, pos + n - 1)
           value == Reading(digits)[n].value
<1>1. CASE Ends(bytes, pos) = {}
  BY <1>1 DEF Varint, Ends
<1>2. CASE Ends(bytes, pos) # {}
  <2>1. n \in Ends(bytes, pos)
    BY <1>2
  <2>2. Varint(bytes, pos) = [ok |-> TRUE, next |-> pos + n, value |-> value]
    BY <1>2 DEF Varint, Ends
  <2> HIDE DEF n
  <2>3. n \in Nat \ {0} /\ pos + n - 1 <= Len(bytes) /\ Len(bytes) \in Nat
    BY <2>1, PayloadAssumption DEF Ends
  <2>4. digits \in Seq(Byte) /\ Len(digits) = n
    <3>1. \A i \in pos .. pos + n - 1 : bytes[i] \in Byte
      BY <2>3
    <3> DEFINE last == pos + n - 1
    <3>2. pos \in Int /\ last \in Int /\ pos <= last /\ last - pos + 1 = n
      BY <2>3
    <3> HIDE DEF last
    <3>3. /\ SubSeq(bytes, pos, last) \in Seq(Byte)
          /\ Len(SubSeq(bytes, pos, last)) = IF pos <= last THEN last - pos + 1 ELSE 0
      BY <3>1, <3>2, SubSeqProperties DEF last
    <3> QED BY <3>2, <3>3 DEF last
  <2>5. value \in Nat
    <3>1. n \in 0 .. Len(digits)
      BY <2>3, <2>4
    <3>2. Reading(digits)[n] \in Readings
      BY <2>4, <3>1, ReadingIs
    <3> QED BY <3>2 DEF Readings
  <2>6. pos + n \in Nat /\ pos + n > pos /\ pos + n <= Len(bytes) + 1
    BY <2>3
  <2>7. value = Reading(SubSeq(bytes, pos, pos + n - 1))[n].value
    OBVIOUS
  <2> DEFINE v == Varint(bytes, pos)
             Read(m) == /\ v = [ok |-> TRUE, next |-> pos + m,
                                value |-> Reading(SubSeq(bytes, pos, pos + m - 1))[m].value]
                        /\ v.next \in Nat /\ v.next > pos /\ v.next <= Len(bytes) + 1
                        /\ v.value \in Nat
  <2>8. Read(n)
    <3> HIDE DEF value
    <3>1. v.next = pos + n /\ v.value = value
      BY <2>2
    <3> HIDE DEF v
    <3> QED BY <2>2, <2>5, <2>6, <2>7, <3>1 DEF v
  <2>9. \E m \in Ends(bytes, pos) : Read(m)
    <3> HIDE DEF Read
    <3> QED BY <2>1, <2>8
  <2> QED BY <2>9
<1> QED BY <1>1, <1>2

(* The first n bytes of a message: what lies in them lies in the message.  *)
LEMMA CutIs ==
  ASSUME NEW W \in Seq(Byte), NEW n \in 0 .. Len(W)
  PROVE  LET C == SubSeq(W, 1, n)
         IN  /\ C \in Seq(Byte) /\ Len(C) = n
             /\ \A i \in 1 .. n : C[i] = W[i]
             /\ \A a, b \in Nat : 1 <= a /\ b <= n => SubSeq(C, a, b) = SubSeq(W, a, b)
<1> DEFINE C == SubSeq(W, 1, n)
<1>1. Len(W) \in Nat /\ n \in Nat /\ \A i \in 1 .. Len(W) : W[i] \in Byte
  OBVIOUS
<1>2. C \in Seq(Byte) /\ Len(C) = n /\ \A i \in 1 .. n : C[i] = W[i]
  <2>1. \A i \in 1 .. n : W[i] \in Byte
    BY <1>1
  <2>2. 1 \in Int /\ n \in Int /\ n - 1 + 1 = n /\ (1 <= n \/ n = 0)
    BY <1>1
  <2>3. /\ C \in Seq(Byte) /\ Len(C) = IF 1 <= n THEN n - 1 + 1 ELSE 0
        /\ \A i \in 1 .. n - 1 + 1 : C[i] = W[1 + i - 1]
    BY <2>1, <2>2, SubSeqProperties
  <2> QED BY <1>1, <2>2, <2>3
<1> HIDE DEF C
<1>3. ASSUME NEW a \in Nat, NEW b \in Nat, 1 <= a, b <= n
      PROVE  SubSeq(C, a, b) = SubSeq(W, a, b)
  <2>1. \A i \in a .. b : C[i] = W[i] /\ W[i] \in Byte
    BY <1>1, <1>2, <1>3
  <2> DEFINE s == SubSeq(C, a, b)
             t == SubSeq(W, a, b)
  <2>2. /\ s \in Seq(Byte) /\ Len(s) = IF a <= b THEN b - a + 1 ELSE 0
        /\ \A i \in 1 .. b - a + 1 : s[i] = C[a + i - 1]
    <3>1. a \in Int /\ b \in Int /\ \A i \in a .. b : C[i] \in Byte
      BY <2>1
    <3> QED BY <3>1, SubSeqProperties
  <2>3. /\ t \in Seq(Byte) /\ Len(t) = IF a <= b THEN b - a + 1 ELSE 0
        /\ \A i \in 1 .. b - a + 1 : t[i] = W[a + i - 1]
    <3>1. a \in Int /\ b \in Int /\ \A i \in a .. b : W[i] \in Byte
      BY <2>1
    <3> QED BY <3>1, SubSeqProperties
  <2>4. \A i \in 1 .. Len(s) : i \in 1 .. b - a + 1 /\ a + i - 1 \in a .. b
    BY <2>2
  <2> HIDE DEF s, t
  <2>5. Len(s) = Len(t) /\ \A i \in 1 .. Len(s) : s[i] = t[i]
    BY <2>1, <2>2, <2>3, <2>4
  <2>6. s = t
    <3>1. s \in Seq(Byte) /\ t \in Seq(Byte)
      BY <2>2, <2>3
    <3> QED BY <2>5, <3>1, SeqEqual, Zenon
  <2> QED BY <2>6 DEF s, t
<1> QED BY <1>2, <1>3 DEF C

(* A varint that a cut message still holds is the message's own.           *)
LEMMA VarintCut ==
  ASSUME NEW W \in Seq(Byte), NEW n \in 0 .. Len(W), NEW pos \in Nat \ {0},
         Varint(SubSeq(W, 1, n), pos).ok
  PROVE  Varint(W, pos) = Varint(SubSeq(W, 1, n), pos)
<1> DEFINE C == SubSeq(W, 1, n)
<1>1. /\ C \in Seq(Byte) /\ Len(C) = n
      /\ \A i \in 1 .. n : C[i] = W[i]
      /\ \A a, b \in Nat : 1 <= a /\ b <= n => SubSeq(C, a, b) = SubSeq(W, a, b)
  BY CutIs
<1>2. Len(W) \in Nat /\ n \in Nat /\ n <= Len(W)
  OBVIOUS
<1> HIDE DEF C
<1>3. PICK k \in Ends(C, pos) :
        Varint(C, pos) = [ok |-> TRUE, next |-> pos + k,
                          value |-> Reading(SubSeq(C, pos, pos + k - 1))[k].value]
  <2>1. Varint(C, pos) # Bad
    BY DEF Bad, C
  <2> QED BY <1>1, <2>1, VarintIs
<1>4. /\ k \in 1 .. Digits /\ k \in Nat /\ pos + k - 1 <= n
      /\ ~C[pos + k - 1].more /\ \A m \in 1 .. (k - 1) : C[pos + m - 1].more
  BY <1>1, PayloadAssumption DEF Ends
<1>5. k \in Ends(W, pos)
  <2>1. pos + k - 1 <= Len(W)
    BY <1>2, <1>4
  <2>2. pos + k - 1 \in 1 .. n /\ \A m \in 1 .. (k - 1) : pos + m - 1 \in 1 .. n
    BY <1>2, <1>4
  <2>3. ~W[pos + k - 1].more /\ \A m \in 1 .. (k - 1) : W[pos + m - 1].more
    BY <1>1, <1>4, <2>2
  <2> QED BY <1>4, <2>1, <2>3 DEF Ends
<1>6. Varint(W, pos) = [ok |-> TRUE, next |-> pos + k,
                        value |-> Reading(SubSeq(W, pos, pos + k - 1))[k].value]
  BY <1>5, OneEnd, VarintIs
<1>7. SubSeq(C, pos, pos + k - 1) = SubSeq(W, pos, pos + k - 1)
  BY <1>1, <1>4
<1> QED BY <1>3, <1>6, <1>7 DEF C

(* Taking bytes is an error, or yields those bytes of the message: the     *)
(* bound is checked before the slice (protobuf.py's length checks).        *)
LEMMA TakeIs ==
  ASSUME NEW bytes \in Seq(Byte), NEW pos \in Nat \ {0}, NEW length \in Nat
  PROVE  \/ Take(bytes, pos, length) = Bad
         \/ /\ pos + length - 1 <= Len(bytes)
            /\ Take(bytes, pos, length) =
                 [ok |-> TRUE, next |-> pos + length,
                  value |-> SubSeq(bytes, pos, pos + length - 1)]
            /\ SubSeq(bytes, pos, pos + length - 1) \in Seq(Byte)
<1>1. Len(bytes) \in Nat
  OBVIOUS
<1>2. CASE pos + length - 1 > Len(bytes)
  BY <1>2 DEF Take
<1>3. CASE ~(pos + length - 1 > Len(bytes))
  <2> DEFINE last == pos + length - 1
  <2>1. pos \in Int /\ last \in Int /\ last <= Len(bytes)
    BY <1>1, <1>3
  <2>2. \A i \in pos .. last : bytes[i] \in Byte
    BY <1>1, <2>1
  <2> HIDE DEF last
  <2>3. SubSeq(bytes, pos, last) \in Seq(Byte)
    BY <2>1, <2>2, SubSeqProperties
  <2> QED BY <1>3, <2>1, <2>3 DEF Take, last
<1> QED BY <1>2, <1>3

(* Bytes a cut message still holds are the message's own.                  *)
LEMMA TakeCut ==
  ASSUME NEW W \in Seq(Byte), NEW n \in 0 .. Len(W), NEW pos \in Nat \ {0},
         NEW length \in Nat, Take(SubSeq(W, 1, n), pos, length).ok
  PROVE  Take(W, pos, length) = Take(SubSeq(W, 1, n), pos, length)
<1> DEFINE C == SubSeq(W, 1, n)
           last == pos + length - 1
<1>1. /\ C \in Seq(Byte) /\ Len(C) = n
      /\ \A a, b \in Nat : 1 <= a /\ b <= n => SubSeq(C, a, b) = SubSeq(W, a, b)
  BY CutIs
<1>2. Len(W) \in Nat /\ n \in Nat /\ n <= Len(W) /\ last \in Nat /\ 1 <= pos /\ pos \in Nat
  OBVIOUS
<1> HIDE DEF C
<1>3. last <= n
  <2>1. Take(C, pos, length) # Bad
    BY DEF Bad, C
  <2> QED BY <1>1, <2>1, TakeIs
<1>4. SubSeq(C, pos, last) = SubSeq(W, pos, last)
  <2> HIDE DEF last
  <2> QED BY <1>1, <1>2, <1>3
<1>5. ~(last > n) /\ ~(last > Len(W))
  <2> HIDE DEF last
  <2> QED BY <1>2, <1>3
<1> HIDE DEF last
<1>6. \A bytes : Take(bytes, pos, length) =
        IF last > Len(bytes) THEN Bad
        ELSE [ok |-> TRUE, next |-> pos + length, value |-> SubSeq(bytes, pos, last)]
  BY DEF Take, last
<1> QED BY <1>1, <1>4, <1>5, <1>6 DEF C

(* A field's value, and that the reader moved no way back.                 *)
IsValue(v, pos) ==
  /\ v.ok = TRUE /\ v.next \in Nat /\ v.next >= pos
  /\ v.value \in Nat \cup Seq(Byte)

(* A field is an error or has a value, for every wire type.                *)
LEMMA FieldIs ==
  ASSUME NEW bytes \in Seq(Byte), NEW pos \in Nat \ {0}, NEW wire \in Nat
  PROVE  \/ FieldValue(bytes, pos, wire) = Bad
         \/ IsValue(FieldValue(bytes, pos, wire), pos)
<1> DEFINE v == FieldValue(bytes, pos, wire)
           n == Varint(bytes, pos)
<1>1. n = Bad \/ /\ IsValue(n, pos) /\ n.value \in Nat /\ n.next \in Nat \ {0}
                 /\ n.next >= pos
  <2>1. CASE Ends(bytes, pos) = {}
    BY <2>1, VarintIs
  <2>2. CASE Ends(bytes, pos) # {}
    <3>1. /\ n.ok = TRUE /\ n.next \in Nat /\ n.next > pos /\ n.value \in Nat
      BY <2>2, VarintIs
    <3> HIDE DEF n
    <3> QED BY <3>1 DEF IsValue
  <2> QED BY <2>1, <2>2
<1>2. ASSUME NEW from \in Nat \ {0}, NEW length \in Nat, from >= pos
      PROVE  Take(bytes, from, length) = Bad \/ IsValue(Take(bytes, from, length), pos)
  <2>1. CASE Take(bytes, from, length) = Bad
    BY <2>1
  <2>2. CASE Take(bytes, from, length) # Bad
    <3> DEFINE t == Take(bytes, from, length)
    <3>1. t.ok = TRUE /\ t.next = from + length /\ t.value \in Seq(Byte)
      <4>1. /\ t = [ok |-> TRUE, next |-> from + length,
                    value |-> SubSeq(bytes, from, from + length - 1)]
            /\ SubSeq(bytes, from, from + length - 1) \in Seq(Byte)
        BY <2>2, TakeIs
      <4> HIDE DEF t
      <4> QED BY <4>1
    <3> HIDE DEF t
    <3>2. t.next \in Nat /\ t.next >= pos
      BY <1>2, <3>1
    <3>3. IsValue(t, pos)
      BY <3>1, <3>2 DEF IsValue
    <3> QED BY <3>3 DEF t
  <2> QED BY <2>1, <2>2
<1> HIDE DEF n
<1>3. v = CASE wire = 0 -> n
            [] wire = 1 -> Take(bytes, pos, 8)
            [] wire = 5 -> Take(bytes, pos, 4)
            [] wire = 2 -> IF n.ok THEN Take(bytes, n.next, n.value) ELSE Bad
            [] OTHER -> Bad
  BY DEF FieldValue, n
<1> HIDE DEF v
<1> SUFFICES v = Bad \/ IsValue(v, pos)
  BY DEF v
<1>4. CASE wire = 0
  BY <1>1, <1>3, <1>4
<1>5. CASE wire = 1
  <2>1. v = Take(bytes, pos, 8) /\ 8 \in Nat /\ pos >= pos
    BY <1>3, <1>5
  <2> QED BY <1>2, <2>1
<1>6. CASE wire = 5
  <2>1. v = Take(bytes, pos, 4) /\ 4 \in Nat /\ pos >= pos
    BY <1>3, <1>6
  <2> QED BY <1>2, <2>1
<1>7. CASE wire = 2
  <2>1. v = IF n.ok THEN Take(bytes, n.next, n.value) ELSE Bad
    BY <1>3, <1>7
  <2>2. n.ok => n # Bad
    BY DEF Bad
  <2> QED BY <1>1, <1>2, <2>1, <2>2
<1>8. CASE wire \notin {0, 1, 5, 2}
  BY <1>3, <1>8
<1> QED BY <1>4, <1>5, <1>6, <1>7, <1>8

(* A field a cut message still holds is the message's own.                 *)
LEMMA FieldCut ==
  ASSUME NEW W \in Seq(Byte), NEW n \in 0 .. Len(W), NEW pos \in Nat \ {0},
         NEW wire \in Nat, FieldValue(SubSeq(W, 1, n), pos, wire).ok
  PROVE  FieldValue(W, pos, wire) = FieldValue(SubSeq(W, 1, n), pos, wire)
<1> DEFINE C == SubSeq(W, 1, n)
           v == FieldValue(C, pos, wire)
           c == Varint(C, pos)
           w == Varint(W, pos)
<1>1. C \in Seq(Byte)
  BY CutIs
<1>2. c.ok => w = c /\ c.next \in Nat \ {0} /\ c.value \in Nat
  <2> SUFFICES ASSUME c.ok PROVE w = c /\ c.next \in Nat \ {0} /\ c.value \in Nat
    OBVIOUS
  <2>1. w = c
    BY VarintCut
  <2>2. c # Bad
    BY DEF Bad
  <2>3. c.next \in Nat /\ c.next > pos /\ c.value \in Nat
    <3> HIDE DEF C
    <3> QED BY <1>1, <2>2, VarintIs
  <2> HIDE DEF c
  <2> QED BY <2>1, <2>3
<1>3. \A from \in Nat \ {0}, length \in Nat :
        Take(C, from, length).ok => Take(W, from, length) = Take(C, from, length)
  BY TakeCut
<1>4. v = CASE wire = 0 -> c
            [] wire = 1 -> Take(C, pos, 8)
            [] wire = 5 -> Take(C, pos, 4)
            [] wire = 2 -> IF c.ok THEN Take(C, c.next, c.value) ELSE Bad
            [] OTHER -> Bad
  BY DEF FieldValue
<1>5. FieldValue(W, pos, wire) =
        CASE wire = 0 -> w
            [] wire = 1 -> Take(W, pos, 8)
            [] wire = 5 -> Take(W, pos, 4)
            [] wire = 2 -> IF w.ok THEN Take(W, w.next, w.value) ELSE Bad
            [] OTHER -> Bad
  BY DEF FieldValue
<1>6. v.ok /\ ~Bad.ok
  BY DEF Bad
<1> HIDE DEF C, v, c, w
<1>7. CASE wire = 0
  <2>1. v = c /\ FieldValue(W, pos, wire) = w
    BY <1>4, <1>5, <1>7
  <2> QED BY <1>2, <1>6, <2>1 DEF v, C
<1>8. CASE wire = 1
  <2>1. v = Take(C, pos, 8) /\ FieldValue(W, pos, wire) = Take(W, pos, 8) /\ 8 \in Nat
    BY <1>4, <1>5, <1>8
  <2> QED BY <1>3, <1>6, <2>1 DEF v, C
<1>9. CASE wire = 5
  <2>1. v = Take(C, pos, 4) /\ FieldValue(W, pos, wire) = Take(W, pos, 4) /\ 4 \in Nat
    BY <1>4, <1>5, <1>9
  <2> QED BY <1>3, <1>6, <2>1 DEF v, C
<1>10. CASE wire = 2
  <2>1. /\ v = IF c.ok THEN Take(C, c.next, c.value) ELSE Bad
        /\ FieldValue(W, pos, wire) = IF w.ok THEN Take(W, w.next, w.value) ELSE Bad
    BY <1>4, <1>5, <1>10
  <2>2. c.ok
    BY <1>6, <2>1
  <2>3. Take(W, c.next, c.value) = Take(C, c.next, c.value)
    BY <1>2, <1>3, <1>6, <2>1, <2>2
  <2> QED BY <1>2, <2>1, <2>2, <2>3 DEF v, C
<1>11. CASE wire \notin {0, 1, 5, 2}
  BY <1>4, <1>6, <1>11
<1> QED BY <1>7, <1>8, <1>9, <1>10, <1>11

(* Fields as the decoder returns them.                                     *)
FieldsRead == [number : Nat, value : Nat \cup Seq(Byte)]

(* What rounds that met no error leave.                                    *)
Reads == [ok : {TRUE}, pos : Nat \ {0}, fields : Seq(FieldsRead)]

(* Before the first round: nothing read.                                   *)
NothingRead == [ok |-> TRUE, pos |-> 1, fields |-> <<>>]

(* One round of the decoder's loop: an error stays one, and at the end of  *)
(* the message nothing is left to do.                                      *)
NextRead(bytes, read) ==
  IF ~read.ok THEN Bad
  ELSE IF read.pos > Len(bytes) THEN read
  ELSE OneField(bytes, read)

(* An error is no result.                                                  *)
LEMMA BadIsBad == ~Bad.ok /\ Bad \notin Reads
  BY DEF Bad, Reads

(* A round is an error or adds one field.                                  *)
LEMMA OneFieldIs ==
  ASSUME NEW bytes \in Seq(Byte), NEW read \in Reads
  PROVE  \/ OneField(bytes, read) = Bad
         \/ /\ OneField(bytes, read) \in Reads
            /\ \E f \in FieldsRead : OneField(bytes, read).fields = Append(read.fields, f)
<1> DEFINE key == Varint(bytes, read.pos)
           value == FieldValue(bytes, key.next, key.value % 8)
           field == [number |-> key.value \div 8, value |-> value.value]
<1>1. read.pos \in Nat \ {0} /\ read.fields \in Seq(FieldsRead)
  BY DEF Reads
<1>2. key.ok => key.next \in Nat \ {0} /\ key.value \in Nat
  <2>1. CASE Ends(bytes, read.pos) = {}
    BY <1>1, <2>1, VarintIs, BadIsBad
  <2>2. CASE Ends(bytes, read.pos) # {}
    <3>1. key.next \in Nat /\ key.next > read.pos /\ key.value \in Nat
      BY <1>1, <2>2, VarintIs
    <3> HIDE DEF key
    <3> QED BY <1>1, <3>1
  <2> QED BY <2>1, <2>2
<1> HIDE DEF key
<1>3. key.ok => value = Bad \/ IsValue(value, key.next)
  <2>1. key.value \in Nat => key.value % 8 \in Nat
    OBVIOUS
  <2> QED BY <1>2, <2>1, FieldIs
<1>4. OneField(bytes, read) =
        IF ~key.ok THEN Bad
        ELSE IF key.value \div 8 = 0 \/ ~value.ok THEN Bad
        ELSE [ok |-> TRUE, pos |-> value.next, fields |-> Append(read.fields, field)]
  BY DEF OneField, key
<1> HIDE DEF value
<1>5. CASE ~key.ok \/ key.value \div 8 = 0 \/ ~value.ok
  BY <1>4, <1>5
<1>6. CASE key.ok /\ ~(key.value \div 8 = 0) /\ value.ok
  <2>1. IsValue(value, key.next)
    BY <1>3, <1>6, BadIsBad
  <2>2. field \in FieldsRead
    <3>1. key.value \div 8 \in Nat
      BY <1>2, <1>6
    <3> QED BY <2>1, <3>1 DEF IsValue, FieldsRead
  <2>3. value.next \in Nat \ {0}
    BY <1>2, <1>6, <2>1 DEF IsValue
  <2> HIDE DEF field
  <2>4. Append(read.fields, field) \in Seq(FieldsRead)
    BY <1>1, <2>2
  <2>5. OneField(bytes, read) =
          [ok |-> TRUE, pos |-> value.next, fields |-> Append(read.fields, field)]
    BY <1>4, <1>6
  <2>6. OneField(bytes, read) \in Reads
    BY <2>3, <2>4, <2>5 DEF Reads
  <2>7. OneField(bytes, read).fields = Append(read.fields, field)
    BY <2>5
  <2> QED BY <2>2, <2>6, <2>7
<1> QED BY <1>5, <1>6

(* A round a cut message still allows reads what the whole one holds.      *)
LEMMA OneFieldCut ==
  ASSUME NEW W \in Seq(Byte), NEW n \in 0 .. Len(W), NEW read \in Reads,
         OneField(SubSeq(W, 1, n), read).ok
  PROVE  OneField(W, read) = OneField(SubSeq(W, 1, n), read)
<1> DEFINE C == SubSeq(W, 1, n)
           key == Varint(C, read.pos)
           value == FieldValue(C, key.next, key.value % 8)
<1>1. read.pos \in Nat \ {0} /\ C \in Seq(Byte)
  BY CutIs DEF Reads
<1>2. \A bytes : OneField(bytes, read) =
        LET k == Varint(bytes, read.pos)
            v == FieldValue(bytes, k.next, k.value % 8)
        IN  IF ~k.ok THEN Bad
            ELSE IF k.value \div 8 = 0 \/ ~v.ok THEN Bad
            ELSE [ok |-> TRUE, pos |-> v.next,
                  fields |-> Append(read.fields, [number |-> k.value \div 8,
                                                  value |-> v.value])]
  BY DEF OneField
<1>3. key.ok /\ value.ok
  <2>1. ~(~key.ok) /\ ~(key.value \div 8 = 0 \/ ~value.ok)
    <3>1. OneField(C, read).ok
      OBVIOUS
    <3> HIDE DEF C
    <3> QED BY <1>2, <3>1, BadIsBad
  <2> QED BY <2>1
<1>4. Varint(W, read.pos) = key
  BY <1>1, <1>3, VarintCut
<1>5. key.next \in Nat \ {0} /\ key.value % 8 \in Nat
  <2>1. key # Bad
    BY <1>3, BadIsBad
  <2>2. key.next \in Nat /\ key.next > read.pos /\ key.value \in Nat
    <3> HIDE DEF C
    <3> QED BY <1>1, <2>1, VarintIs
  <2> HIDE DEF key
  <2> QED BY <1>1, <2>2
<1>6. FieldValue(W, key.next, key.value % 8) = value
  <2> DEFINE from == key.next
             wire == key.value % 8
  <2>1. from \in Nat \ {0} /\ wire \in Nat /\ FieldValue(C, from, wire).ok
    BY <1>3, <1>5
  <2> HIDE DEF from, wire
  <2>2. FieldValue(W, from, wire) = FieldValue(C, from, wire)
    BY <2>1, FieldCut
  <2> QED BY <2>2 DEF from, wire
<1> QED BY <1>2, <1>4, <1>6

(* The decoder's loop: each round starts where the last one stopped.       *)
LEMMA RoundsAre ==
  ASSUME NEW bytes \in Seq(Byte)
  PROVE  /\ Rounds(bytes) \in [0 .. Len(bytes) -> Reads \cup {Bad}]
         /\ Rounds(bytes)[0] = NothingRead
         /\ \A n \in 1 .. Len(bytes) :
              Rounds(bytes)[n] = NextRead(bytes, Rounds(bytes)[n - 1])
<1> DEFINE N == Len(bytes)
           T == Reads \cup {Bad}
           next(r, n) == NextRead(bytes, r)
           step == [x \in (1 .. N) \X T |-> next(x[2], x[1])]
           Is(f) == f = [n \in 0 .. N |-> IF n = 0 THEN NothingRead ELSE next(f[n - 1], n)]
           g == Rounds(bytes)
<1>1. /\ N \in Nat /\ NothingRead \in T
      /\ \A n \in 1 .. N : \A r \in T : next(r, n) \in T
  <2>1. <<>> \in Seq(FieldsRead)
    OBVIOUS
  <2>2. NothingRead \in T
    BY <2>1 DEF NothingRead, Reads
  <2>3. ASSUME NEW r \in T PROVE NextRead(bytes, r) \in T
    <3>1. CASE r \in Reads
      <4>1. OneField(bytes, r) \in T
        BY <3>1, OneFieldIs
      <4> HIDE DEF T
      <4> QED BY <2>3, <4>1 DEF NextRead, T
    <3>2. CASE r = Bad
      BY <3>2, BadIsBad DEF NextRead
    <3> QED BY <3>1, <3>2
  <2> QED BY <2>2, <2>3
<1> HIDE DEF next, T
<1>2. IsLoop(N, T, NothingRead, step)
  BY <1>1 DEF IsLoop
<1>3. PICK f : IsRun(f, N, T, NothingRead, step)
  <2> HIDE DEF step, N
  <2> QED BY <1>2, Loop
<1>4. \A n \in 1 .. N : n - 1 \in 0 .. N /\ n # 0 /\ n \in 0 .. N
  BY <1>1
<1>5. /\ f \in [0 .. N -> T] /\ f[0] = NothingRead
      /\ \A n \in 1 .. N : f[n] = next(f[n - 1], n)
  <2> HIDE DEF N
  <2>1. /\ f \in [0 .. N -> T] /\ f[0] = NothingRead
        /\ \A n \in 1 .. N : f[n] = step[<<n, f[n - 1]>>]
    <3> HIDE DEF step
    <3> QED BY <1>3 DEF IsRun
  <2>2. \A n \in 1 .. N : step[<<n, f[n - 1]>>] = next(f[n - 1], n)
    BY <1>4, <2>1
  <2> QED BY <2>1, <2>2
<1>6. Is(f)
  <2>1. \A n \in 0 .. N : n = 0 \/ n \in 1 .. N
    BY <1>1
  <2> HIDE DEF N
  <2>2. \A n \in 0 .. N : f[n] = IF n = 0 THEN NothingRead ELSE next(f[n - 1], n)
    BY <1>5, <2>1
  <2> QED BY <1>5, <2>2
<1>7. g = CHOOSE f_ : Is(f_)
  BY DEF Rounds, next, NextRead, NothingRead
<1>8. Is(g)
  BY <1>6, <1>7
<1>9. g[0] = NothingRead /\ \A n \in 1 .. N : g[n] = next(g[n - 1], n)
  <2>1. \A n \in 0 .. N : g[n] = IF n = 0 THEN NothingRead ELSE next(g[n - 1], n)
    <3> HIDE DEF N
    <3> QED BY <1>8
  <2> HIDE DEF g
  <2> QED BY <1>1, <1>4, <2>1
<1>10. g = [n \in 0 .. N |-> g[n]]
  BY <1>8
<1> HIDE DEF g
<1>11. g \in [0 .. N -> T]
  <2>1. g[0] \in T /\ \A n \in 1 .. N : g[n - 1] \in T => g[n] \in T
    BY <1>1, <1>9
  <2> HIDE DEF N
  <2> QED BY <1>1, <1>10, <2>1, StaysIn
<1> QED BY <1>9, <1>11 DEF g, next, T

(* s is how t begins.                                                      *)
Begins(s, t) == Len(s) <= Len(t) /\ \A i \in 1 .. Len(s) : s[i] = t[i]

(* What begins a list of fields begins it after one more.                  *)
LEMMA BeginsAppend ==
  ASSUME NEW s \in Seq(FieldsRead), NEW t \in Seq(FieldsRead), NEW f \in FieldsRead, Begins(s, t)
  PROVE  Begins(s, Append(t, f))
<1>1. Len(Append(t, f)) = Len(t) + 1 /\ \A i \in 1 .. Len(t) : Append(t, f)[i] = t[i]
  OBVIOUS
<1>2. Len(s) \in Nat /\ Len(t) \in Nat
  OBVIOUS
<1> QED BY <1>1, <1>2 DEF Begins

(* Later rounds only add fields to those that were read, and no error is   *)
(* ever forgotten.                                                         *)
LEMMA FieldsGrow ==
  ASSUME NEW bytes \in Seq(Byte), NEW m \in 0 .. Len(bytes)
  PROVE  \A n \in 0 .. Len(bytes) :
           m <= n /\ Rounds(bytes)[n].ok =>
             Rounds(bytes)[m].ok /\ Begins(Rounds(bytes)[m].fields, Rounds(bytes)[n].fields)
<1> DEFINE N == Len(bytes)
           R == Rounds(bytes)
           S == {n \in 0 .. N : m <= n /\ R[n].ok => R[m].ok /\ Begins(R[m].fields, R[n].fields)}
<1>1. N \in Nat /\ m \in Nat
  OBVIOUS
<1>2. /\ R \in [0 .. N -> Reads \cup {Bad}]
      /\ \A n \in 1 .. N : R[n] = NextRead(bytes, R[n - 1])
  BY RoundsAre
<1> HIDE DEF R
<1>3. \A n \in 0 .. N : R[n].ok => R[n] \in Reads /\ R[n].fields \in Seq(FieldsRead)
  BY <1>2, BadIsBad DEF Reads
<1>4. ASSUME NEW s \in Seq(FieldsRead) PROVE Begins(s, s)
  <2>1. Len(s) \in Nat
    OBVIOUS
  <2> QED BY <2>1 DEF Begins
<1>5. m \in S
  BY <1>1, <1>3, <1>4
<1>6. 0 \in S
  <2>1. CASE m = 0
    BY <1>5, <2>1
  <2>2. CASE m # 0
    <3>1. ~(m <= 0) /\ 0 \in 0 .. N
      BY <1>1, <2>2
    <3> QED BY <3>1
  <2> QED BY <2>1, <2>2
<1>7. ASSUME NEW n \in 1 .. N, n - 1 \in S PROVE n \in S
  <2>1. n - 1 \in 0 .. N /\ n \in 0 .. N
    BY <1>1
  <2>2. CASE n <= m
    <3>1. n = m \/ ~(m <= n)
      BY <1>1, <2>2
    <3> QED BY <1>5, <2>1, <3>1
  <2>3. CASE ~(n <= m)
    <3>1. m <= n - 1
      BY <1>1, <2>3
    <3> SUFFICES ASSUME R[n].ok PROVE R[m].ok /\ Begins(R[m].fields, R[n].fields)
      BY <2>1
    <3>2. R[n - 1].ok
      BY <1>2, BadIsBad DEF NextRead
    <3>3. R[m].ok /\ Begins(R[m].fields, R[n - 1].fields)
      BY <1>7, <3>1, <3>2
    <3>4. \/ R[n] = R[n - 1]
          \/ \E f \in FieldsRead : R[n].fields = Append(R[n - 1].fields, f)
      <4>1. R[n] = R[n - 1] \/ R[n] = OneField(bytes, R[n - 1])
        BY <1>2, <3>2 DEF NextRead
      <4>2. R[n - 1] \in Reads
        BY <1>3, <2>1, <3>2
      <4> QED BY <4>1, <4>2, OneFieldIs, BadIsBad
    <3>5. R[m].fields \in Seq(FieldsRead) /\ R[n - 1].fields \in Seq(FieldsRead)
      BY <1>3, <2>1, <3>2, <3>3
    <3> QED BY <3>3, <3>4, <3>5, BeginsAppend
  <2> QED BY <2>2, <2>3
<1> HIDE DEF S, N
<1>8. 0 .. N \subseteq S
  BY <1>1, <1>6, <1>7, Induct
<1> QED BY <1>8 DEF S, R, N

(* Whatever the rounds over a cut message have read, the whole one had     *)
(* read on the way.                                                        *)
LEMMA CutRounds ==
  ASSUME NEW W \in Seq(Byte), NEW n \in 0 .. Len(W)
  PROVE  LET C == SubSeq(W, 1, n)
         IN  \A k \in 0 .. n :
               Rounds(C)[k].ok => \E m \in 0 .. k : Rounds(W)[m] = Rounds(C)[k]
<1> DEFINE C == SubSeq(W, 1, n)
           R == Rounds(C)
           V == Rounds(W)
           S == {k \in 0 .. n : R[k].ok => \E m \in 0 .. k : V[m] = R[k]}
<1>1. C \in Seq(Byte) /\ Len(C) = n /\ Len(W) \in Nat /\ n \in Nat /\ n <= Len(W)
  BY CutIs
<1>2. /\ R \in [0 .. n -> Reads \cup {Bad}] /\ R[0] = NothingRead
      /\ \A k \in 1 .. n : R[k] = NextRead(C, R[k - 1])
  <2> HIDE DEF C
  <2> QED BY <1>1, RoundsAre
<1>3. /\ V \in [0 .. Len(W) -> Reads \cup {Bad}] /\ V[0] = NothingRead
      /\ \A k \in 1 .. Len(W) : V[k] = NextRead(W, V[k - 1])
  BY RoundsAre
<1> HIDE DEF R, V
<1>4. 0 \in S
  BY <1>1, <1>2, <1>3
<1>5. ASSUME NEW k \in 1 .. n, k - 1 \in S PROVE k \in S
  <2>1. k - 1 \in 0 .. n /\ k \in 0 .. n /\ k \in Nat
    BY <1>1
  <2> SUFFICES ASSUME R[k].ok PROVE \E m \in 0 .. k : V[m] = R[k]
    BY <2>1
  <2>2. R[k - 1].ok /\ R[k - 1] \in Reads
    BY <1>2, <2>1, BadIsBad DEF NextRead
  <2>3. PICK m \in 0 .. k - 1 : V[m] = R[k - 1]
    BY <1>5, <2>2
  <2>4. CASE R[k - 1].pos > n
    <3>1. R[k] = R[k - 1]
      BY <1>1, <1>2, <2>2, <2>4 DEF NextRead
    <3>2. m \in 0 .. k
      BY <2>1
    <3> QED BY <2>3, <3>1, <3>2
  <2>5. CASE ~(R[k - 1].pos > n)
    <3>1. R[k] = OneField(C, R[k - 1])
      <4> HIDE DEF C
      <4> QED BY <1>1, <1>2, <2>2, <2>5 DEF NextRead
    <3>2. R[k] = OneField(W, R[k - 1])
      BY <2>2, <3>1, OneFieldCut
    <3>3. ~(R[k - 1].pos > Len(W))
      <4>1. R[k - 1].pos \in Nat
        BY <2>2 DEF Reads
      <4> QED BY <1>1, <2>5, <4>1
    <3>4. m + 1 \in 1 .. Len(W) /\ m + 1 \in 0 .. k /\ m + 1 - 1 = m
      BY <1>1, <2>1
    <3>5. V[m + 1] = NextRead(W, R[k - 1])
      BY <1>3, <2>3, <3>4
    <3>6. V[m + 1] = R[k]
      BY <2>2, <3>2, <3>3, <3>5 DEF NextRead
    <3> QED BY <3>4, <3>6
  <2> QED BY <2>4, <2>5
<1> HIDE DEF S
<1>6. 0 .. n \subseteq S
  BY <1>1, <1>4, <1>5, Induct
<1> QED BY <1>6 DEF S, R, V

(* A message cut between two fields loses fields and changes none: what is *)
(* read from the shorter one begins what the longer one says               *)
(* (protobuf.py's loop has no state but the position).                     *)
THEOREM CutsOnlyLoseFields == FSpec => []CutMessageOnlyLoses
<1>1. SeenOK => CutMessageOnlyLoses
  <2> DEFINE W == seen.message
  <2> SUFFICES ASSUME SeenOK, Has("message"), Parse(W).ok, NEW n \in 0 .. Len(W),
                      Parse(SubSeq(W, 1, n)).ok
               PROVE  IsPrefix(Parse(SubSeq(W, 1, n)).fields, Parse(W).fields)
    BY DEF CutMessageOnlyLoses
  <2> DEFINE C == SubSeq(W, 1, n)
             N == Len(W)
             s == Parse(C).fields
             t == Parse(W).fields
  <2>1. W \in Seq(Byte)
    BY MessageOf, FormatsAssumption DEF AllMessages, Byte
  <2> HIDE DEF W
  <2>2. N \in Nat /\ N \in 0 .. N /\ n \in 0 .. n /\ n \in Nat /\ n <= N
    BY <2>1
  <2>3. C \in Seq(Byte) /\ Len(C) = n
    BY <2>1, CutIs
  <2>4. Parse(C) = Rounds(C)[n] /\ Parse(W) = Rounds(W)[N]
    BY <2>3 DEF Parse
  <2>5. PICK m \in 0 .. n : Rounds(W)[m] = Rounds(C)[n]
    BY <2>1, <2>2, <2>4, CutRounds
  <2>6. m \in 0 .. N /\ m <= N
    BY <2>2
  <2>7. Begins(s, t)
    BY <2>1, <2>2, <2>4, <2>5, <2>6, FieldsGrow
  <2>8. s \in Seq(FieldsRead) /\ t \in Seq(FieldsRead)
    <3>1. Rounds(W)[m] \in Reads \cup {Bad} /\ Rounds(W)[N] \in Reads \cup {Bad}
      BY <2>1, <2>2, <2>6, RoundsAre
    <3>2. Rounds(W)[m] \in Reads /\ Rounds(W)[N] \in Reads
      BY <2>4, <2>5, <3>1, BadIsBad
    <3> QED BY <2>4, <2>5, <3>2 DEF Reads
  <2> HIDE DEF s, t
  <2>9. IsPrefix(s, t)
    <3>1. Len(s) \in Nat /\ Len(t) \in Nat /\ Len(s) <= Len(t)
      BY <2>7, <2>8 DEF Begins
    <3> DEFINE k == Len(s)
               a == SubSeq(s, 1, k)
               b == SubSeq(t, 1, k)
    <3>2. \A i \in 1 .. k : s[i] \in FieldsRead /\ t[i] \in FieldsRead /\ s[i] = t[i]
      BY <2>7, <2>8, <3>1 DEF Begins
    <3>3. 1 \in Int /\ k \in Int /\ k - 1 + 1 = k /\ \A i \in 1 .. k : 1 + i - 1 = i
      BY <3>1
    <3> HIDE DEF k
    <3>4. /\ a \in Seq(FieldsRead) /\ Len(a) = IF 1 <= k THEN k - 1 + 1 ELSE 0
          /\ \A i \in 1 .. k - 1 + 1 : a[i] = s[1 + i - 1]
      BY <3>2, <3>3, SubSeqProperties
    <3>5. /\ b \in Seq(FieldsRead) /\ Len(b) = IF 1 <= k THEN k - 1 + 1 ELSE 0
          /\ \A i \in 1 .. k - 1 + 1 : b[i] = t[1 + i - 1]
      BY <3>2, <3>3, SubSeqProperties
    <3> HIDE DEF a, b
    <3>6. Len(a) = Len(b) /\ \A i \in 1 .. Len(a) : a[i] = b[i]
      BY <3>2, <3>3, <3>4, <3>5
    <3>7. a \in Seq(FieldsRead) /\ b \in Seq(FieldsRead)
      BY <3>4, <3>5
    <3>8. a = b
      BY <3>6, <3>7, SeqEqual, Zenon
    <3> QED BY <3>1, <3>8 DEF IsPrefix, a, b, k
  <2> QED BY <2>9 DEF s, t
<1> QED BY <1>1, SeenIsOK, PTL

(* A field takes a byte at least.                                          *)
LEMMA OneFieldMoves ==
  ASSUME NEW bytes \in Seq(Byte), NEW read \in Reads, OneField(bytes, read).ok
  PROVE  OneField(bytes, read).pos > read.pos
<1> DEFINE key == Varint(bytes, read.pos)
           value == FieldValue(bytes, key.next, key.value % 8)
           field == [number |-> key.value \div 8, value |-> value.value]
<1>1. read.pos \in Nat \ {0}
  BY DEF Reads
<1>2. key.ok => key.next \in Nat \ {0} /\ key.next > read.pos /\ key.value \in Nat
  <2>1. CASE Ends(bytes, read.pos) = {}
    BY <1>1, <2>1, VarintIs, BadIsBad
  <2>2. CASE Ends(bytes, read.pos) # {}
    <3>1. key.next \in Nat /\ key.next > read.pos /\ key.value \in Nat
      BY <1>1, <2>2, VarintIs
    <3> HIDE DEF key
    <3> QED BY <1>1, <3>1
  <2> QED BY <2>1, <2>2
<1> HIDE DEF key
<1>3. key.ok => value = Bad \/ IsValue(value, key.next)
  <2>1. key.value \in Nat => key.value % 8 \in Nat
    OBVIOUS
  <2> QED BY <1>2, <2>1, FieldIs
<1>4. OneField(bytes, read) =
        IF ~key.ok THEN Bad
        ELSE IF key.value \div 8 = 0 \/ ~value.ok THEN Bad
        ELSE [ok |-> TRUE, pos |-> value.next, fields |-> Append(read.fields, field)]
  BY DEF OneField, key
<1> HIDE DEF value, field
<1>5. key.ok /\ value.ok /\ OneField(bytes, read).pos = value.next
  BY <1>4, BadIsBad
<1>6. IsValue(value, key.next)
  BY <1>3, <1>5, BadIsBad
<1> QED BY <1>1, <1>2, <1>5, <1>6 DEF IsValue

(* The reader has come to the end of the message when its rounds are over, *)
(* so that as many rounds as there are bytes stand for protobuf.py's while *)
(* loop: no message is left half read without an error.                    *)
THEOREM ParseReadsAll ==
  ASSUME NEW bytes \in Seq(Byte), Parse(bytes).ok
  PROVE  Parse(bytes).pos > Len(bytes)
<1> DEFINE N == Len(bytes)
           R == Rounds(bytes)
           S == {n \in 0 .. N : R[n].ok => R[n].pos > n}
<1>1. N \in Nat
  OBVIOUS
<1>2. /\ R \in [0 .. N -> Reads \cup {Bad}] /\ R[0] = NothingRead
      /\ \A n \in 1 .. N : R[n] = NextRead(bytes, R[n - 1])
  BY RoundsAre
<1> HIDE DEF R
<1>3. 0 \in S
  BY <1>1, <1>2 DEF NothingRead
<1>4. ASSUME NEW n \in 1 .. N, n - 1 \in S PROVE n \in S
  <2>1. n - 1 \in 0 .. N /\ n \in 0 .. N
    BY <1>1
  <2> SUFFICES ASSUME R[n].ok PROVE R[n].pos > n
    BY <2>1
  <2>2. R[n - 1].ok /\ R[n - 1] \in Reads /\ R[n] \in Reads
    BY <1>2, <2>1, BadIsBad DEF NextRead
  <2>3. R[n - 1].pos \in Nat /\ R[n].pos \in Nat /\ R[n - 1].pos > n - 1
    BY <1>4, <2>2 DEF Reads
  <2>4. CASE R[n - 1].pos > N
    <3>1. R[n] = R[n - 1]
      BY <1>2, <2>2, <2>4 DEF NextRead
    <3> QED BY <1>1, <2>3, <2>4, <3>1
  <2>5. CASE ~(R[n - 1].pos > N)
    <3>1. R[n] = OneField(bytes, R[n - 1])
      BY <1>2, <2>2, <2>5 DEF NextRead
    <3>2. R[n].pos > R[n - 1].pos
      BY <2>2, <3>1, OneFieldMoves
    <3> QED BY <1>1, <2>3, <3>2
  <2> QED BY <2>4, <2>5
<1> HIDE DEF S
<1>5. 0 .. N \subseteq S
  BY <1>1, <1>3, <1>4, Induct
<1>6. N \in S
  BY <1>1, <1>5
<1> QED BY <1>1, <1>6 DEF S, R, Parse
=============================================================================
