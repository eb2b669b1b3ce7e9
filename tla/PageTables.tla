----------------------------- MODULE PageTables -----------------------------
(***************************************************************************)
(* Translation tables of ARM, ARM64 and AMD64.  On ARM: a first level      *)
(* table of sections, two second level tables, one for the first section,  *)
(* to trap null pointers, and one for the section in which text ends;      *)
(* later calls change whole sections.  On ARM64: blocks that are split.    *)
(* On AMD64: pages of three sizes and the bit that marks them as encrypted.*)
(*                                                                         *)
(* Addresses are page numbers.                                             *)
(***************************************************************************)
EXTENDS Naturals, FiniteSets

CONSTANTS
    PerSection,     \* pages of a section, l2pageTableSize
    Sections,       \* l1pageTableSize
    Images,         \* [ramStart, textEnd, ramEnd] of the image
    Targets,        \* alias arguments of ConfigureMMU, in sections, 0 for none
    Bounds,         \* start and end arguments
    MaxUpdates      \* bound: calls after InitMMU

VARIABLES
    image,
    first,          \* the first level table
    second,         \* the second level tables, 1 and 2
    asked,          \* the mapping of each page that was asked for
    spoiled,        \* entries for page tables that were updated as if for sections
    single,         \* sections SetAttribute was called for
    updates

armMmuVars == <<image, first, second, asked, spoiled, single, updates>>

All == 0 .. Sections * PerSection - 1

Fault == [kind |-> "fault"]
Region(pa, attr) == [kind |-> "region", pa |-> pa, attr |-> attr]
PageTable(t) == [kind |-> "table", table |-> t]

\* attributes are the set of the bits that are set in an entry
SECTION == 1
BUFFERABLE == 2
CACHEABLE == 3
EXECUTE_NEVER == 4
AP == 10
MemoryRegion == {AP, CACHEABLE, BUFFERABLE, SECTION}
DeviceRegion == {AP, SECTION}

Init ==
    /\ image \in Images
    /\ first = [i \in 0 .. Sections - 1 |-> Fault]
    /\ second = [t \in {1, 2} |-> [i \in 0 .. PerSection - 1 |-> Fault]]
    /\ asked = [p \in All |-> Fault] /\ spoiled = {} /\ single = {} /\ updates = 0

-----------------------------------------------------------------------------

\* the attributes of the section, or page, that starts at addr
Attributes(addr) ==
    IF addr >= image.ramStart /\ addr < image.textEnd THEN MemoryRegion
    ELSE IF addr >= image.ramStart /\ addr < image.ramEnd THEN MemoryRegion \cup {EXECUTE_NEVER}
    ELSE DeviceRegion \cup {EXECUTE_NEVER}

Straddles(i) == i * PerSection < image.textEnd /\ (i + 1) * PerSection > image.textEnd

\* mutant: the section in which text ends is not split
initL1TableWhole ==
    [i \in 0 .. Sections - 1 |->
        IF i = 0 THEN PageTable(1) ELSE Region(i * PerSection, Attributes(i * PerSection))]

\* entries from 1, and the one InitMMU writes for section 0
initL1Table ==
    [i \in 0 .. Sections - 1 |->
        IF i = 0 THEN PageTable(1)
        ELSE IF Straddles(i) THEN PageTable(2)
        ELSE Region(i * PerSection, Attributes(i * PerSection))]

\* the table of the section that starts at addr, from an entry on
initL2Table(table, entry, addr) ==
    [i \in 0 .. PerSection - 1 |->
        IF i < entry THEN table[i] ELSE Region(addr + i, Attributes(addr + i))]

\* what the documentation of InitMMU says of a page
Flat(p) == IF p = 0 THEN Fault ELSE Region(p, Attributes(p))

InitMMU ==
    /\ first[0] = Fault
    /\ first' = initL1Table
    /\ second' = [t \in {1, 2} |->
            IF t = 1 THEN initL2Table(second[1], 1, 0)
            ELSE IF \E i \in 1 .. Sections - 1 : Straddles(i)
            THEN initL2Table(second[2], 0,
                     (CHOOSE i \in 1 .. Sections - 1 : Straddles(i)) * PerSection)
            ELSE second[2]]
    /\ asked' = [p \in All |-> Flat(p)]
    /\ UNCHANGED <<image, spoiled, single, updates>>

-----------------------------------------------------------------------------

\* sections of the range, rounded down at either end
Range(start, end) == {i \in 0 .. Sections - 1 : i >= start \div PerSection /\ i < end \div PerSection}
InSections(p, s) == p \div PerSection \in s

\* mutant: the alias is that of the first section for all of them
ConfigureMMUSame(start, end, alias, attr) ==
    LET s == Range(start, end)
        pa(i) == IF alias > 0 THEN alias ELSE i
    IN
    /\ first[0] # Fault /\ updates < MaxUpdates
    /\ first' = [i \in DOMAIN first |-> IF i \in s THEN Region(pa(i) * PerSection, attr) ELSE first[i]]
    /\ asked' = [p \in All |-> IF InSections(p, s)
            THEN Region((IF alias > 0 THEN alias * PerSection + p - (start \div PerSection) * PerSection
                         ELSE p), attr)
            ELSE asked[p]]
    /\ spoiled' = spoiled \ s /\ single' = single \ s /\ updates' = updates + 1
    /\ UNCHANGED <<image, second>>

ConfigureMMU(start, end, alias, attr) ==
    LET s == Range(start, end)
        pa(i) == IF alias > 0 THEN alias + i - (start \div PerSection) ELSE i
    IN
    /\ first[0] # Fault /\ updates < MaxUpdates
    /\ first' = [i \in DOMAIN first |-> IF i \in s THEN Region(pa(i) * PerSection, attr) ELSE first[i]]
    /\ asked' = [p \in All |-> IF InSections(p, s)
            THEN Region((IF alias > 0 THEN alias * PerSection + p - (start \div PerSection) * PerSection
                         ELSE p), attr)
            ELSE asked[p]]
    /\ spoiled' = spoiled \ s /\ single' = single \ s /\ updates' = updates + 1
    /\ UNCHANGED <<image, second>>

\* SetN: the bits of the mask take those of val; in an entry for a page table they
\* are part of its address
updateMMU(start, end, mask, val) ==
    LET s == Range(start, end) IN
    /\ first[0] # Fault /\ updates < MaxUpdates
    /\ first' = [i \in DOMAIN first |->
            IF i \in s /\ first[i].kind = "region"
            THEN Region(first[i].pa, (first[i].attr \ mask) \cup (val \cap mask)) ELSE first[i]]
    /\ spoiled' = spoiled \cup {i \in s : first[i].kind = "table"}
    /\ updates' = updates + 1
    /\ UNCHANGED <<image, second>>

\* the bits in which pages of the range are asked to be as in val
Ask(start, end, bits, val) ==
    asked' = [p \in All |->
        IF InSections(p, Range(start, end)) /\ asked[p] # Fault
        THEN Region(asked[p].pa, (asked[p].attr \ bits) \cup val) ELSE asked[p]]

SetAccessPermissions(start, end, ap) ==
    /\ updateMMU(start, end, {5, 6, 7, 8, 10, 11}, ap)
    /\ Ask(start, end, 5 .. 11, ap)
    /\ UNCHANGED single

\* mutant: flags are only added
SetAttributesAdd(start, end, flags) ==
    /\ updateMMU(start, end, flags, flags)
    /\ Ask(start, end, 0 .. 4, flags)
    /\ UNCHANGED single

SetAttributes(start, end, flags) ==
    /\ updateMMU(start, end, {0, 1, 2, 3, 4, 18, 19}, flags)
    /\ Ask(start, end, 0 .. 4, flags)
    /\ UNCHANGED single

Bits(n) == {k \in 0 .. 4 : (n \div 2^k) % 2 = 1}

\* the mask is pos itself
SetAttribute(start, end, pos, val) ==
    LET bit == IF val = 1 THEN {pos} ELSE {} IN
    /\ updateMMU(start, end, Bits(pos), bit)
    /\ Ask(start, end, {pos}, bit)
    /\ single' = single \cup Range(start, end)

Next ==
    \/ InitMMU
    \/ \E start, end \in Bounds :
          \/ \E alias \in Targets, flags \in {MemoryRegion, DeviceRegion} :
                ConfigureMMU(start, end, alias, flags)
          \/ \E ap \in {{10}, {10, 11}} : SetAccessPermissions(start, end, ap)
          \/ \E flags \in {{SECTION}, {SECTION, EXECUTE_NEVER}} : SetAttributes(start, end, flags)
          \/ \E pos \in {CACHEABLE, EXECUTE_NEVER}, val \in {0, 1} : SetAttribute(start, end, pos, val)

Spec == Init /\ [][Next]_armMmuVars

-----------------------------------------------------------------------------

\* what the MMU finds for a page
Lookup(p) ==
    LET e == first[p \div PerSection] IN
    CASE e.kind = "fault" -> Fault
      [] e.kind = "table" -> second[e.table][p % PerSection]
      [] e.kind = "region" ->
            IF e.attr \cap {0, SECTION} = {} THEN Fault
            ELSE Region(e.pa + (p % PerSection), e.attr)

\* "InitMMU initializes translation tables for all available memory with a flat
\* mapping": the first page traps, only text is executable; ConfigureMMU,
\* SetAttributes and SetAccessPermissions change the sections of their range
\* as they were asked to, and no others.
ArmTranslated ==
    \A p \in All : p \div PerSection \notin spoiled \cup single => Lookup(p) = asked[p]

\* "SetAttribute (re)configures a single attribute flag on the first-level
\* translation tables for the provided memory range."
SingleAttribute ==
    \A p \in All : p \div PerSection \in single \ spoiled => Lookup(p) = asked[p]

-----------------------------------------------------------------------------
(***************************************************************************)
(* Translation tables on ARM64: three levels of tables with E entries each *)
(* are filled by mmuMap.Init for a flat mapping and changed, in units of   *)
(* second level blocks, by ConfigureMMU.                                   *)
(*                                                                         *)
(* Addresses are page numbers.  A table is a function from indices to      *)
(* entries, and an entry that refers to a table holds it.                  *)
(***************************************************************************)

CONSTANTS
    E,              \* entriesPerTable
    ArenaOffset,    \* pageTableArenaOffset, in pages
    Layouts,        \* [ramStart, textStart, textEnd, ramEnd], rounded to pages
    Aliases,        \* physical addresses for ConfigureMMU64, in blocks, 0 for none
    MaxConfigs      \* bound: calls of ConfigureMMU64

VARIABLES
    layout,         \* of the image
    l1,             \* the first level table
    arena,          \* tables allocated from the space below text
    mmu,            \* "off", "on", "panic"
    expected,       \* the mapping of each page that was asked for
    configs

mmuVars == <<layout, l1, arena, mmu, expected, configs>>

Pages == 0 .. E * E * E - 1
Index == 0 .. E - 1

Invalid == [kind |-> "invalid"]
Table(t) == [kind |-> "table", table |-> t]
Block(pa, attr) == [kind |-> "block", pa |-> pa, attr |-> attr]
IsTable(tte) == tte.kind = "table"

Init64 ==
    /\ layout \in Layouts
    /\ l1 = [i \in Index |-> Invalid] /\ arena = 0 /\ mmu = "off"
    /\ expected = [p \in Pages |-> Invalid] /\ configs = 0

-----------------------------------------------------------------------------
(* mmuMap.Init.                                                            *)

classifyBlock(addr, end) ==
    IF addr >= layout.ramStart /\ end <= layout.textEnd THEN "exec"
    ELSE IF addr >= layout.textEnd /\ end <= layout.ramEnd THEN "xn"
    ELSE IF addr < layout.ramEnd /\ end > layout.ramStart THEN "split"
    ELSE "device"

initL3Table(section) ==
    [i \in Index |-> Block(section + i, classifyBlock(section + i, section + i + 1))]

initL2Table64(section) ==
    [i \in Index |->
        LET addr == section + i * E
            action == classifyBlock(addr, addr + E)
        IN  IF action = "split" THEN Table(initL3Table(addr)) ELSE Block(addr, action)]

initL1Table64 ==
    [i \in Index |->
        LET addr == i * E * E
            action == classifyBlock(addr, addr + E * E)
        IN  IF action = "split" THEN Table(initL2Table64(addr)) ELSE Block(addr, action)]

\* the tables for the first entries are at fixed addresses; the first page is invalid
Tables ==
    LET l3 == [initL3Table(0) EXCEPT ![0] = Invalid]
        l2 == [initL2Table64(0) EXCEPT ![0] = Table(l3)]
    IN  [initL1Table64 EXCEPT ![0] = Table(l2)]

\* calls of alloc for these tables
Allocated(t) ==
    LET upper == {i \in Index : IsTable(t[i])}
        third == {ij \in upper \X Index : IsTable(t[ij[1]].table[ij[2]])}
    IN  Cardinality(upper \ {0}) + Cardinality(third \ {<<0, 0>>})

ArenaSize == layout.textStart - layout.ramStart - ArenaOffset

\* init: the checks on the layout
LayoutFits ==
    /\ layout.textStart >= layout.ramStart /\ layout.textEnd <= layout.ramEnd
    /\ layout.ramStart + ArenaOffset < layout.textStart

Flat64(p) ==
    IF p = 0 THEN Invalid
    ELSE Block(p, IF p \notin layout.ramStart .. layout.ramEnd - 1 THEN "device"
                  ELSE IF p < layout.textEnd THEN "exec" ELSE "xn")

MmuInit ==
    /\ mmu = "off"
    /\ IF LayoutFits /\ Allocated(Tables) <= ArenaSize
       THEN mmu' = "on" /\ l1' = Tables /\ arena' = Allocated(Tables)
       ELSE mmu' = "panic" /\ UNCHANGED <<l1, arena>>
    /\ expected' = [p \in Pages |-> Flat64(p)]
    /\ UNCHANGED <<layout, configs>>

-----------------------------------------------------------------------------
(* ConfigureMMU.                                                           *)

\* mutant: every block of a split entry has its address
SplitSame(x) ==
    IF IsTable(l1[x]) THEN l1[x].table
    ELSE [y \in Index |-> IF l1[x] = Invalid THEN Invalid ELSE Block(x * E * E, l1[x].attr)]

\* l2Entry: a first level block becomes a table with the same attributes
l2Table(x) ==
    IF IsTable(l1[x]) THEN l1[x].table
    ELSE [y \in Index |-> IF l1[x] = Invalid THEN Invalid
                          ELSE Block((x * E + y) * E, l1[x].attr)]

ConfigureMMU64(start, end, alias) ==
    LET pa(b) == IF alias > 0 THEN (alias + b - start) * E ELSE b * E
        blocks == start .. end - 1
        changed == {b \div E : b \in blocks}
        splits == {x \in changed : ~IsTable(l1[x])}
    IN  /\ mmu = "on" /\ configs < MaxConfigs
        /\ configs' = configs + 1
        /\ IF arena + Cardinality(splits) <= ArenaSize
           THEN /\ l1' = [x \in Index |->
                        IF x \notin changed THEN l1[x]
                        ELSE Table([y \in Index |->
                            LET b == x * E + y
                            IN  IF b \in blocks THEN Block(pa(b), "flags") ELSE l2Table(x)[y]])]
                /\ arena' = arena + Cardinality(splits)
                /\ UNCHANGED mmu
           ELSE mmu' = "panic" /\ UNCHANGED <<l1, arena>>
        /\ expected' = [p \in Pages |->
                IF p \div E \in blocks THEN Block(pa(p \div E) + (p % E), "flags") ELSE expected[p]]
        /\ UNCHANGED layout

Next64 ==
    \/ MmuInit
    \/ \E start, end \in 0 .. E * E, alias \in Aliases : ConfigureMMU64(start, end, alias)

Spec64 == Init64 /\ [][Next64]_mmuVars

-----------------------------------------------------------------------------

\* the table walk of the processor
Walk(p) ==
    LET tte1 == l1[p \div (E * E)]
        tte2 == IF IsTable(tte1) THEN tte1.table[(p \div E) % E] ELSE tte1
        tte3 == IF IsTable(tte2) THEN tte2.table[p % E] ELSE tte2
        size == IF ~IsTable(tte1) THEN E * E ELSE IF ~IsTable(tte2) THEN E ELSE 1
    IN  IF tte3 = Invalid THEN Invalid ELSE Block(tte3.pa + (p % size), tte3.attr)

\* Init64 sets a flat mapping for every page, with page 0 invalid, RAM up to the end
\* of text executable, other RAM not, and the rest device memory; ConfigureMMU64
\* changes the mapping of its range and of no other page, splitting blocks or not.
Translated == mmu = "on" => \A p \in Pages : Walk(p) = expected[p]

-----------------------------------------------------------------------------
(***************************************************************************)
(* Translation tables on AMD64.  cpuinit leaves one table on each level,   *)
(* with Tt entries: PDPT entries for large pages from the second on, PDT   *)
(* entries for the first of these, PT entries for the first of those.  The *)
(* C-bit marks pages that are encrypted.                                   *)
(*                                                                         *)
(* Addresses are page numbers; a PTE is the table and the index.           *)
(***************************************************************************)

CONSTANTS
    Tt,             \* tableEntries
    PteBounds,      \* start and end arguments
    MaxPteCalls     \* bound: calls

VARIABLES
    amd,            \* the tables, CR0.WP, whether the processor has faulted, calls
    amdAsked        \* each page that is mapped: attribute and C-bit as asked for, by base

amdVars == <<amd, amdAsked>>

Large == Tt * Tt
Extended == 4 * Large       \* 4 GiB
NoPTE == << >>
Leaf(pa, device, c) == [kind |-> "page", pa |-> pa, device |-> device, c |-> c]

\* the tables that cpuinit sets up
cpuinit ==
    [pdpt |-> [i \in 0 .. Tt - 1 |-> IF i = 0 THEN PageTable("pdt")
                                    ELSE IF i <= 5 THEN Leaf(i * Large, i >= 3, FALSE) ELSE Fault],
     pdt |-> [i \in 0 .. Tt - 1 |-> IF i = 0 THEN PageTable("pt") ELSE Leaf(i * Tt, FALSE, FALSE)],
     pt |-> [i \in 0 .. Tt - 1 |-> IF i = 0 THEN Fault ELSE Leaf(i, FALSE, FALSE)],
     wp |-> FALSE, panic |-> FALSE, calls |-> 0]

\* the size and the base of the page that an address is in
PageSize(addr) == IF addr < Tt THEN 1 ELSE IF addr < Large THEN Tt ELSE Large
Base(addr) == addr - (addr % PageSize(addr))

AmdInit ==
    /\ amd = cpuinit
    /\ amdAsked = [p \in {Base(q) : q \in 1 .. 6 * Large - 1} |-> [device |-> p >= 3 * Large, c |-> FALSE]]

\* the entries that lead to a page, down to the one that maps it or is not present
WalkAmd(addr) ==
    LET path == << <<"pdpt", addr \div Large>>, <<"pdt", (addr \div Tt) % Tt>>, <<"pt", addr % Tt>> >>
        entry(k) == amd[path[k][1]][path[k][2]]
        last == CHOOSE k \in 1 .. 3 : entry(k).kind # "table" /\ \A j \in 1 .. k - 1 : entry(j).kind = "table"
    IN  [pte |-> path[last], level |-> 4 - last, entry |-> entry(last)]

\* mutant: the C-bit is taken for a bit of the address
FindPTEWithCbit(addr) ==
    IF addr >= Tt * Large THEN [pte |-> NoPTE, level |-> 4, page |-> 0]
    ELSE LET w == WalkAmd(addr) IN
         IF w.entry = Fault THEN [pte |-> NoPTE, level |-> w.level, page |-> 0]
         ELSE [pte |-> w.pte, level |-> w.level, page |-> w.entry.pa + IF w.entry.c THEN Tt * Large ELSE 0]

\* with the C-bit given; the first level has a single entry
FindPTE(addr) ==
    IF addr >= Tt * Large THEN [pte |-> NoPTE, level |-> 4, page |-> 0]
    ELSE LET w == WalkAmd(addr) IN
         IF w.entry = Fault THEN [pte |-> NoPTE, level |-> w.level, page |-> 0]
         ELSE [pte |-> w.pte, level |-> w.level, page |-> w.entry.pa]

\* the pages a call of SetEncryptedBit is for: none, if that is an error or if the
\* end of the range is not mapped
Within(start, end) ==
    {p \in DOMAIN amdAsked :
        /\ {start, Base(end)} \subseteq DOMAIN amdAsked /\ PageSize(start) = PageSize(end)
        /\ start <= p /\ p < Base(end)}

\* errors change nothing; from the first page, which is not present, entries would
\* be written from address 0 on, which faults; SetWriteProtect is off meanwhile
SetEncryptedBit(start, end, private) ==
    LET s == FindPTE(start)
        e == FindPTE(end)
        entries == IF NoPTE \in {s.pte, e.pte} THEN {} ELSE s.pte[2] .. e.pte[2] - 1
    IN
    /\ ~amd.panic /\ amd.calls < MaxPteCalls
    /\ \/ /\ s.level # e.level \/ start # s.page
          /\ amd' = [amd EXCEPT !.calls = @ + 1]
       \/ /\ s.level = e.level /\ start = s.page
          /\ LET done == [amd EXCEPT !.calls = @ + 1, !.wp = TRUE, !.panic = s.pte = NoPTE /\ e.pte # NoPTE] IN
             amd' = IF entries = {} THEN done
                    ELSE [done EXCEPT ![s.pte[1]] = [i \in DOMAIN @ |->
                            IF i \in entries /\ @[i] # Fault THEN [@[i] EXCEPT !.c = private] ELSE @[i]]]
    /\ amdAsked' = [p \in DOMAIN amdAsked |->
            IF p \in Within(start, end) THEN [amdAsked[p] EXCEPT !.c = private] ELSE amdAsked[p]]

\* set_ext_pdpt for the entries of an aligned range, as far as there are any
ConfigurePDPT(start, end, device) ==
    LET indices == {i \in 0 .. Tt - 1 : start >= Extended /\ start <= i * Large /\ i * Large < end} IN
    /\ ~amd.panic /\ amd.calls < MaxPteCalls
    /\ amd' = [amd EXCEPT !.calls = @ + 1,
            !.pdpt = [i \in DOMAIN @ |-> IF i \in indices THEN Leaf(i * Large, device, FALSE) ELSE @[i]]]
    /\ amdAsked' = [p \in DOMAIN amdAsked \cup {i * Large : i \in indices} |->
            IF p \div Large \in indices THEN [device |-> device, c |-> FALSE] ELSE amdAsked[p]]

AmdNext ==
    \/ \E start, end \in PteBounds, private \in BOOLEAN : SetEncryptedBit(start, end, private)
    \/ \E start, end \in 2 .. Tt + 1, device \in BOOLEAN : ConfigurePDPT(start * Large, end * Large, device)

\* Every page that is mapped is mapped to itself, with the attribute and the C-bit
\* that were asked for last, on whichever level; the first page always traps, and
\* an aligned range of mapped pages of one level is never refused.
AmdTranslated ==
    \A p \in 0 .. Tt * Large - 1 :
        LET w == WalkAmd(p) IN
        w.entry = IF Base(p) \in DOMAIN amdAsked
                  THEN Leaf(Base(p), amdAsked[Base(p)].device, amdAsked[Base(p)].c) ELSE Fault

=============================================================================
