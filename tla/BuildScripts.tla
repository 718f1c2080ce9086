---------------------------- MODULE BuildScripts ----------------------------
(***************************************************************************)
(* The scripts around the kernel: src/scripts/pack.py packs the user       *)
(* programs into the table that get_elf() of src/os/loader.c searches;     *)
(* src/os/kernel.ld lays out the kernel, which maps itself by the symbols   *)
(* of that script, and src/scripts/kernelld.py writes another one, with a  *)
(* section for each program, which the Makefile does not use; and          *)
(* src/scripts/sv39.py takes addresses and page table entries apart.       *)
(***************************************************************************)
EXTENDS GefCommand

CONSTANTS
    Alphabet,   \* letters of the names of programs
    Page,       \* bytes of a page in the linker script
    VpnBits,    \* bits of one level of a page table index, 9 in the code
    OffBits,    \* bits of the offset in a page, 12 in the code
    HighBits    \* bits above the virtual address, 25 in the code

ASSUME ScriptBounds == /\ Alphabet \subseteq Nat /\ Page \in Nat \ {0}
                       /\ VpnBits \in Nat \ {0} /\ OffBits \in Nat \ {0} /\ HighBits \in Nat \ {0}

-----------------------------------------------------------------------------
(* pack.py and get_elf()                                                    *)

Names == UNION {[1 .. n -> Alphabet] : n \in 1 .. 3}
NullEntry == <<>>

\* os.listdir() gives the names in any order.
PackInit ==
    \E n \in 1 .. 3 : \E apps \in [1 .. n -> Names], wanted \in 1 .. n :
        /\ \A i, j \in 1 .. n : apps[i] = apps[j] => i = j
        /\ job = [cmd |-> "pack", apps |-> apps, wanted |-> apps[wanted]]
        /\ st = [status |-> "walking", left |-> apps, table |-> <<>>, at |-> 0, elf |-> NullEntry]

\* Strings in the order of their characters, a prefix first.
Before(s, t) ==
    \/ IsPrefix(s, t)
    \/ \E i \in DOMAIN s \cap DOMAIN t :
            s[i] < t[i] /\ \A j \in 1 .. i - 1 : s[j] = t[j]

\* Mutant: apps.sort() is left out.
FirstListed(apps) == 1

\* apps.sort(): the program that comes next.
FirstApp(apps) == CHOOSE i \in DOMAIN apps : \A j \in DOMAIN apps : Before(apps[i], apps[j])

\* One entry of the table user_apps, and after the last a NULL entry.
PackApp ==
    /\ Walking({"pack"}) /\ st.at = 0
    /\ UNCHANGED job
    /\ st' = IF st.left = <<>> THEN [st EXCEPT !.table = Append(@, NullEntry), !.at = 1]
             ELSE [st EXCEPT !.table = Append(@, st.left[FirstApp(st.left)]),
                             !.left = RemoveAt(@, FirstApp(st.left))]

\* get_elf() of the kernel, one entry: strncmp() over the length of the name.
GetElf ==
    /\ Walking({"pack"}) /\ st.at > 0
    /\ UNCHANGED job
    /\ st' = IF st.table[st.at] = NullEntry THEN [st EXCEPT !.status = "none"]
             ELSE IF IsPrefix(job.wanted, st.table[st.at])
                  THEN [st EXCEPT !.status = "found", !.elf = st.table[st.at]]
             ELSE [st EXCEPT !.at = @ + 1]

-----------------------------------------------------------------------------
(* kernel.ld and kernelld.py                                                *)

\* The statements of a linker script: input sections of any size, alignments to a
\* page and symbols.  ("end" closes .text, which may be a page of the trampoline.)

\* Mutant: the text is not aligned at its end.
KernelScriptLoose ==
    <<"s_text", "text", "e_text", "trampsec", "end", "align", "s_rodata", "rodata", "align",
      "e_rodata", "s_data", "data", "align", "e_data", "stack", "s_bss", "bss", "align", "e_bss">>

\* src/os/kernel.ld
KernelScript ==
    <<"s_text", "text", "align", "e_text", "trampsec", "end", "align", "s_rodata", "rodata", "align",
      "e_rodata", "s_data", "data", "align", "e_data", "stack", "s_bss", "bss", "align", "e_bss">>

\* kernelld.py: a program adds an aligned section.
LinkerScript(apps) ==
    <<"s_text", "text", "align", "trampsec", "end", "align", "align", "e_text", "s_rodata", "rodata",
      "align", "e_rodata", "s_data", "data">>
    \o FoldLeft(LAMBDA acc, i : acc \o <<"align", "app">>, <<>>, [i \in 1 .. apps |-> i])
    \o <<"align", "data", "align", "e_data", "stack", "s_bss", "bss", "align", "e_bss">>

InputSections == {"text", "trampsec", "rodata", "data", "app", "stack", "bss"}

LinkInit ==
    \E script \in {KernelScript, LinkerScript(0), LinkerScript(1)},
       size \in [InputSections -> 0 .. Page] :
        /\ script # LinkerScript(1) => size["app"] = 0
        /\ job = [cmd |-> "link", script |-> script, size |-> size]
        /\ st = [status |-> "walking", next |-> 1, dot |-> 0, where |-> <<>>]

\* The linker carries out one statement.
LinkStep ==
    LET item == job.script[st.next]
        there == Append(st.where, <<item, st.dot>>)
    IN /\ Walking({"link"})
       /\ UNCHANGED job
       /\ st' = IF st.next > Len(job.script) THEN [st EXCEPT !.status = "done"]
                ELSE [st EXCEPT !.next = @ + 1, !.where = there,
                                !.dot = CASE item = "align" -> ((@ + Page - 1) \div Page) * Page
                                          [] item \in InputSections -> @ + job.size[item]
                                          [] OTHER -> @]

-----------------------------------------------------------------------------
(* sv39.py                                                                  *)

VaBits == 3 * VpnBits + OffBits
Field(w, shift, bits) == (w \div 2^shift) % 2^bits

SvInit ==
    \E va \in 0 .. 2^(VaBits + HighBits) - 1 :
        /\ job = [cmd |-> "sv39", va |-> va]
        /\ st = [status |-> "walking", parts |-> <<>>]

\* validate_sv39_address(): the bits above the address all alike, and then the
\* top bit of the address and they all one.
Validate(va) ==
    LET high == Field(va, VaBits, HighBits)
        allOne == high = 2^HighBits - 1
    IN (high = 0 \/ allOne) /\ Field(va, VaBits - 1, 1) = 1 /\ allOne

\* Mutant: the mask of an index is one bit too wide.
VpnWide(va, level) == Field(va, OffBits + level * VpnBits, VpnBits + 1)

Vpn(va, level) == Field(va, OffBits + level * VpnBits, VpnBits)

\* calculate_vpn_and_offset()
CalculateVpn ==
    /\ Walking({"sv39"})
    /\ UNCHANGED job
    /\ st' = IF ~Validate(job.va) THEN [st EXCEPT !.status = "refused"]
             ELSE [status |-> "done",
                   parts |-> <<Vpn(job.va, 2), Vpn(job.va, 1), Vpn(job.va, 0),
                               Field(job.va, 0, OffBits)>>]

\* decode_sv39_pte(): flags (eight and two spare bits in the code) are lowest,
\* then the page number, of three indices' worth of bits here, then reserved
\* bits.
FlagBits == 2
PteInit ==
    \E pte \in 0 .. 2^(3 * VpnBits + FlagBits + HighBits) - 1 :
        /\ job = [cmd |-> "pte", pte |-> pte]
        /\ st = [status |-> "walking", addr |-> 0, flags |-> {}]

DecodePte ==
    /\ Walking({"pte"})
    /\ UNCHANGED job
    /\ st' = [status |-> "done", addr |-> Field(job.pte, FlagBits, 3 * VpnBits) * 2^OffBits,
              flags |-> {i \in 0 .. FlagBits - 1 : Field(job.pte, i, 1) = 1}]

-----------------------------------------------------------------------------
ScriptsInit == PackInit \/ LinkInit \/ SvInit \/ PteInit

ScriptsNext == PackApp \/ GetElf \/ LinkStep \/ CalculateVpn \/ DecodePte

-----------------------------------------------------------------------------
(* Properties.                                                             *)

\* Every packed program is found by its name, and is the one that is run,
\* although get_elf() takes the first program whose name begins with the name
\* asked for: the order pack.py writes the table in makes it right.
AppFound ==
    (job.cmd = "pack" /\ Ended) => st.status = "found" /\ st.elf = job.wanted

\* The regions that kvmmake() maps between the symbols of the linker script, text that
\* can be executed, data that cannot be written and data that can, are whole pages,
\* share none and hold their sections, whatever the sizes of these; and the trampoline,
\* which is mapped as one page of its own, begins one and ends before the data.  The
\* kernel is linked with kernel.ld; the script that kernelld.py writes, which it is not,
\* has these properties too, and begins a page with every program.
RegionsApart ==
    (job.cmd = "link" /\ Ended) =>
        LET at(item) == {w[2] : w \in {x \in ToSet(st.where) : x[1] = item}}
            symbol(item) == CHOOSE a \in at(item) : TRUE
            inside(item, first, last) ==
                \A a \in at(item) : symbol(first) <= a /\ a + job.size[item] <= symbol(last)
        IN /\ \A item \in {"s_text", "e_text", "s_rodata", "e_rodata", "s_data", "e_bss", "trampsec",
                           "app"} : \A a \in at(item) : a % Page = 0
           /\ symbol("e_text") <= symbol("s_rodata") /\ symbol("e_rodata") <= symbol("s_data")
           /\ inside("text", "s_text", "e_text") /\ inside("rodata", "s_rodata", "e_rodata")
           /\ \A item \in {"data", "app", "stack", "bss"} : inside(item, "s_data", "e_bss")
           /\ inside("trampsec", "s_text", "s_rodata")

\* PX(level, va) of the kernel, and sign extension.
PX(level, va) == (va \div 2^(OffBits + VpnBits * level)) % 2^VpnBits
Canonical(va) == Field(va, VaBits, HighBits) = IF Field(va, VaBits - 1, 1) = 1 THEN 2^HighBits - 1 ELSE 0

\* An address that sv39.py takes apart is canonical, and the indices and the offset it
\* prints are those the kernel walks its page tables with, and together are the address.
\* The physical address and the flags of an entry are the kernel's, reserved bits left
\* out.
SvExact ==
    /\ (job.cmd = "sv39" /\ st.status = "done") =>
        LET p == st.parts
        IN /\ Canonical(job.va)
           /\ \A level \in 0 .. 2 : p[3 - level] = PX(level, job.va)
           /\ ((p[1] * 2^VpnBits + p[2]) * 2^VpnBits + p[3]) * 2^OffBits + p[4]
                        = job.va % 2^VaBits
    /\ (job.cmd = "pte" /\ Ended) =>
        \E reserved \in 0 .. 2^HighBits - 1 :
            job.pte = (reserved * 2^(3 * VpnBits) + st.addr \div 2^OffBits) * 2^FlagBits
                      + (IF 0 \in st.flags THEN 1 ELSE 0) + (IF 1 \in st.flags THEN 2 ELSE 0)

\* The kernel and the scripts beside it agree: on which program a name means, on
\* the pages of the image, and on the parts of addresses and page table entries.
ScriptsExact == AppFound /\ RegionsApart /\ SvExact

-----------------------------------------------------------------------------
(* What the documents say and the code does not do *)

\* sv39.py:11 "If the 38th bit is 1, all higher bits (63:39) must also be 1. / If the
\* 38th bit is 0, all higher bits (63:39) must also be 0.": every address that conforms
\* to these rules is taken.
CanonicalTaken == (job.cmd = "sv39" /\ Ended /\ Canonical(job.va)) => st.status = "done"

=============================================================================
