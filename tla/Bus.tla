--------------------------------- MODULE Bus ---------------------------------
(***************************************************************************)
(* The address bus (src/a816/cpu/mapping.py): banks of logical addresses   *)
(* mapped onto file offsets, with the LoROM bus of src/a816/symbols.py.    *)
(* An address is its logical value; the file offset of a writable bank is  *)
(* None in the code and NoOffset here.                                     *)
(***************************************************************************)
EXTENDS Integers

LOCAL INSTANCE TLC

Bank64K  == 65536
NoOffset == -1

\* Mapping: the banks from `first` on, `mask` bytes each, at the top of the
\* bank.  A mask with more than one bit is not modelled.
Masks == {32768, Bank64K}
Mapping(first, mask, writable) == [first |-> first, mask |-> mask, writable |-> writable]

EmptyBus == [bank \in {} |-> Mapping(0, Bank64K, FALSE)]

\* Bus.map, with the mirror banks when there are some.
MapBanks(bus, banks, mapping) == [bank \in banks |-> mapping] @@ bus

LowRom ==
    LET rom    == MapBanks(EmptyBus, 0 .. 111, Mapping(0, 32768, FALSE))
        mirror == MapBanks(rom, 128 .. 207, Mapping(128, 32768, FALSE))
    IN  MapBanks(mirror, 126 .. 127, Mapping(126, Bank64K, TRUE))

HighRom ==
    LET rom    == MapBanks(EmptyBus, 64 .. 127, Mapping(64, Bank64K, FALSE))
        mirror == MapBanks(rom, 192 .. 255, Mapping(192, Bank64K, FALSE))
    IN  MapBanks(mirror, 126 .. 127, Mapping(126, Bank64K, TRUE))

BankOf(a) == a \div Bank64K

\* get_mapping_for_bank raises UnmappedBankError otherwise.
Mapped(bus, a) == BankOf(a) \in DOMAIN bus

\* Mapping.physical_address: the bits of the mask are dropped.
PhysicalIn(m, a) == (BankOf(a) - m.first) * m.mask + (a % m.mask)

\* Mapping.logical_address.
LogicalIn(m, p) == (p \div m.mask + m.first) * Bank64K + (m.mask % Bank64K) + (p % m.mask)

\* Address.physical.
Physical(bus, a) ==
    IF bus[BankOf(a)].writable THEN NoOffset ELSE PhysicalIn(bus[BankOf(a)], a)

\* Address.__add__: the sum is taken in file offsets where there are some, so
\* the end of a bank is followed by the first byte of the next that is mapped.
Plus(bus, a, n) ==
    IF bus[BankOf(a)].writable THEN a + n
    ELSE LogicalIn(bus[BankOf(a)], PhysicalIn(bus[BankOf(a)], a) + n)
=============================================================================
