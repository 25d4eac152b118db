# A verification project for Valid-EGTS

Valid-EGTS is a C++ library for the EGTS transport protocol: it decodes packets from a
byte stream into records and subrecords, and encodes them again. This directory holds
TLA+ models of its code, TLC runs that check them on small instances, and proofs that
TLAPS checks for every instance. `PROJECT.json` says for every definition which lines of
the source it models (`map`), which hazards the properties are for (`hazards`), which
runs there are, and which change of a definition breaks each property (`mutants`).

## 1. The system

| Component | State it keeps | Operations | Hard to get right |
|---|---|---|---|
| `TPacket::SetData`, `Init` (egts_packet.cpp) | the fields of a `TPacket`; the caller's buffer | find a header, wait for the rest, check, decode; report `*ppos` | packets in pieces; what to free; damaged lengths; fields left over from an earlier packet |
| `TRecord::SetData`, `GetInheritor`, `TSubrecord::SubrecordData` | 16-bit `pos`, `rl`; the lists of records and subrecords | walk a frame: records, in them subrecords | one damaged element in the middle; offsets that wrap in long frames; what a subrecord reports as read |
| `SetSRD`, `GetData` of 26 classes (egts_subrecord.cpp) | the fields of a subrecord | decode and encode | presence bits, lists, counters of few bits; size computed apart from the copying |
| `TPacket::GetData`, `TRecord::GetData` | sizes in `uint16_t`, two buffers | add up sizes, allocate, copy, pad, checksum | sums that wrap; sizes that disagree with the copying |
| `HandleAnError`, `SetErrorCallback` (egts_common.cpp) | one static handler: callback, error, mutex | report an error, exchange the callback | threads; a callback that throws or reports an error; no lock around the exchange |
| copy constructor, `operator=` of `TPacket` | the source's `ena`; the copy | `GetData` of the source, `SetData` of the copy | the source is changed; what cannot be encoded, or is not read back, is lost with all behind it |
| `object_list_t` (egts_common.h) | a deque and ONE cursor | `First`, `Next`, `Add`, `New`, `Erase`, `Clear` | nested loops; adding during a loop |
| accessors (coordinates, altitude, speed, numbers in two bit fields, ...) | bit fields, sign and presence bits | `Set...`, `Get...`, `Copy` | signs, widths, products that wrap, bits that are never taken back |
| `egts_crc8`, `egts_crc16` (egts_crc.cpp) | a register | one byte after the other | the order of bits against the order of bytes; how far two errors may lie apart |
| example (main.cpp), GOST cipher, TZLib | - | - | external or without state |

The parts meet in one direction each. A caller hands its buffer to `SetData`, which finds
a packet, hands its frame record by record to `TRecord::SetData`, which hands the data of
every subrecord to the `SetSRD` of a class. `GetData` goes the same way with sizes and
buffers. Every failure may be reported through `HandleAnError`, whose callback is the
caller's. Both directions run the checksums over what they send or get. A copy of a packet
goes through both: `GetData` of the source, `SetData` of the copy. All of them use lists that
have one cursor each, and so does the caller. `main.cpp` 170-174 encodes a packet, calls
`Init`, decodes it again and loops over its records.

What makes each part correct:

- decoding: the result does not depend on how the stream was cut into pieces; no packet is
  lost behind `*ppos` or read twice; accepted means checked; no field of an older packet;
- walking: ends, forward only, near the frame - in frames of more than 65513 bytes it need not
  end; damage does not reach what is in front of it;
- subrecords: writes inside its buffer, reads inside its data, restores what was encoded,
  reports the length it has;
- encoding: the buffer holds what is copied, the limit decides, lengths agree with `SetData`;
- errors: a callback sees one error, and reporting ends;
- packets as values: each holds what was put into it, sent to it or assigned to it; a copy has
  what is in front of the first record that is not read back; encryption is not lost; a loop over
  a list sees every element once;
- accessors: a receiver reads what was set last, and its sign and presence bits are true;
- checksums: damage is noticed, and whether it is depends on the damage alone.

## 2. The modules

| Module | Models | State and actions |
|---|---|---|
| `PacketHeader` | the header, `pack_size`, the preamble, streams | pure; a stream is its length and what reads as a header at which offset |
| `PacketDelivery` | abstract: a stream is consumed packet by packet in one pass | `Skip`, `TakeNext` |
| `PacketReader` | `TPacket::SetData` on a growing buffer | `Arrive`; one action for each outcome of `SetData`: `Search`, `WaitForRest`, `RefuseHeader`, `AcceptBare`, `RefuseFrame`, `RefusePreamble`, `AcceptFrame` |
| `RecordWalk` | the two loops over a frame | `OpenRecord`, `RefuseRecord`, `KeepSubrecord`, `LoseRecord`, `CloseRecord`, `Finish` |
| `SequenceSums` | the sums of sizes that the models add up | pure |
| `SubrecordLayout` | the bytes of all classes | pure: `X_GetData`, `X_SetSRD` for every class `X`; `IsObject`, what an object of a class can be |
| `SubrecordCodec` | one subrecord, encoded, cut or stretched, decoded | `PrepareGetData`, `CopyIn`, `Arrive`, `CopyOut`, `Fail`, `Return` |
| `PacketEncoder` | both `GetData` | `AddSubrecord`, `AddRecord`, `RefuseSize`, `Allocate`, `CopyRecord`, ... |
| `ErrorHandler` | the handler, threads, callbacks | `Raise`, `Lock`, `Store`, `Check`, `Call`, `Unlock`, `SetErrorCallback`; the callback's `Return`, `Throw`, `Reenter` |
| `ObjectList` | `object_list_t` with its one cursor | pure: an operator for each of `First`, `Next`, `Add`, `Erase`, `Clear`; a stale cursor may be anywhere |
| `PacketObjects` | what a program does with `TPacket` objects, over `ObjectList` and `PacketHeader` | `InitPacket`, `Fill`, `SetKey`, `AddRecord`, `Encode`, `Decode`, `DecodeNoise`, `Assign`, `Construct`, `StartLoop`, `LoopNext`, `LoopErase` |
| `Checksum` | both checksums with both tables, a sender and a receiver, damage in between | `SendByte`, `SendSum` |
| `FieldAccessors` | `Set`, the message and `Get` of every accessor that changes its value on the way | `Set`, `Send`, `NewSender` |
| `MC...` | the instances for TLC | |
| `...Proofs` | the theorems | |

A definition whose comment begins with "Faulty:" is a variant that no specification uses:
it is its neighbour with a plausible mistake, and stands there so that the claim "this
property would notice" can be checked (`mutants`).

How the code became a model:

- **Bytes.** `PacketReader` does not hold bytes. A header is what is read at an offset, plus
  the truth of three conditions: the header checksum is right, the frame checksum is right,
  and the first two bytes of the frame are `sig`. `Headers` are the offsets where the three
  `continue`s of the search do not apply; look-alikes inside frames or in noise are headers
  that were not `sent`.
- **Calls.** `Init` and `SetData` are one action: nothing else touches the object meanwhile.
  The reader frees what `*ppos` says. Since a call may follow every single byte, all ways to
  cut a stream into pieces are behaviours.
- **History.** `taken` and `accepted` remember what `*ppos` covered and what was accepted.
- **Frames.** In `RecordWalk` a frame is a function from offsets to what a record head or a
  subrecord would be there. Whether `SetSRD` succeeds and how much it reports is part of the
  frame, so the walk is checked against any behaviour of the classes within `Overshoot`.
  `SubrecordCodec` checks that 19 is such a bound (`OvershootBounded`). A frame has any length
  that the 16 bits of `fdl` give it: that is more than a sender may write, but `SetData` does not
  compare it with anything. `turned` says that `pos` has been cut to 16 bits. From then on the
  walk may go round, and the lists, which would grow for ever, are not followed; `count` is what
  `TRecord::SetData` returns of theirs, in 8 bits.
- **Layers.** `PacketReader` takes the records of a frame as one step, and assumes that the step
  returns: `RecordWalk` says when it does.
- **Layouts.** A class is a table of parts written and items read. An item says how many
  bytes have to be left, how many are kept and how far `pos` moves: three numbers that differ
  exactly where the code is irregular (`Loose`). `reported` is the `*size` that
  `PrepareGetData` leaves, header included, in 16 bits: `TRecord::GetData` copies as many bytes.
- **Objects.** `PacketObjects` composes what the other modules have in detail: `GetData` as a
  whole gives a message or nothing, `SetData` as a whole the set of packets it can leave
  (`Outcomes`). A message is what was written, an encryption shows by its padding: zeroes that
  are walked as an empty record (`Phantom`) if there are seven of them. A record has a `back`:
  "whole" if `SetData` reads it as it was, "lost" if it ends the loop over the records
  (egts_packet.cpp:323: no class for a type in its service, or an exception), "other" if some of
  it is not read where it stands and taken for what follows (`Underread` in `SubrecordCodec`).
  Of a message with such a record `Found` has all the lists of records that the walk may leave,
  and the packet decoded from it, or copied through it, is excused. `GetData` moves the
  cursor of the records, which ends a loop of the program over them. `meant` and `asked` say
  what the program means; `excused` and `stripped` name the packets about which nothing is
  promised, each put there by the code line that breaks the promise.
- **Bits.** In `Checksum` a byte is the set of its bits and xor the symmetric difference, so
  that linearity can be proved. The tables are written out as in the source; that entry `b` is
  the remainder of `b` is an assumption (`Polynomials`, over `Shift`, one step of the
  division) which TLC evaluates.
- **Accessors.** Most do the same with other numbers, so an accessor is a record: factor,
  divisor, mask, width, treatment of the sign. Values are numbers, not bit patterns, and the
  units of coordinates are those of the field.
- **Overruns.** Behind a copy over the end of a buffer nothing is said: the models stop there
  (`phase = "overrun"`, or `Arrive` disabled by `Overrun`), so that only the property about
  overruns speaks of it.
- **Errors of memory.** `new` that throws is not modelled; a subrecord whose `GetData` throws
  or returns 0 is (`NoData`), and so is a `SetSRD` that throws.

## 3. The runs

| Run | Question | Bounds |
|---|---|---|
| `PacketReader` | does decoding depend on the pieces, lose, repeat or mix anything? | streams of two segments, or three behind a signed packet, out of 6 intact, 6 damaged and 4 other kinds, each of the least size at which its case happens; one byte arrives at a time |
| `PacketReaderRouted` (violation) | does `SetData` wait only for what is missing? | an intact packet, a routed one, an intact one |
| `RecordWalk` | does the walk get on, end, and keep what is intact? | frames of up to two records and two subrecords, sound or damaged in every way `IntactRecord` tells apart, cut anywhere; frames of the greatest length, whose first subrecord takes `pos` over the modulus; offsets wrap at 40 and a subrecord reports up to 2 bytes too many, where the code has 65536 and 19 |
| `RecordWalkLong` (violation) | does `SetData` return from every frame? | the same frames |
| `SubrecordCodec` | do `SetSRD` and `GetData` agree for every class? | every class, all presence bits, lists up to and over the capacity of their counters, every length next to the end of a part |
| `PacketEncoder` | do the sums cover the copying? | sizes around 65512, 65517 and 65535; up to two records and two subrecords; all types, route, `ena` 0-2 |
| `PacketEncoderLimit` (violation) | is EGTS_MAX_FRAME_SIZE enforced? | as above |
| `PacketObjects` | are packets values? | two packets, six operations in any order; up to two records: of 17 bytes (padded with seven zeroes, and too long twice behind a preamble), refused by `GetData`, or not read back by `SetData`; all types, a route, `ena` 0-2, noise |
| `Checksum` | which damage is noticed? | headers of up to 15 bytes and frames of up to 4096, one or two damaged bytes with up to four bits each; a second one further away than a burst in its highest bit |
| `FieldAccessors` | does what was set come back? | every accessor, 74 values on both sides of every boundary, set and sent any number of times |
| `ErrorHandler` | are reports whole, and do they end? | 2 threads, 3 reports, a plain, a throwing and a reporting callback, exchanged at any time |
| `ErrorHandlerRemoved` (violation) | is a null pointer never called? | 2 threads, 2 reports |

Why the bounds are enough. A stream decision is local: it depends on the packet in front, on
how much of it is there, and, after damage, on the one behind it; three segments contain all
pairs, and the proofs in section 5 remove the bound for safety. A counter of 8 or 9 bits is
given 2 or 4 values (`Capacity`): the property is about the step from the last value to the
first one, and the counted loop does not look at the capacity otherwise; the three bits of
`lbsn` keep their size. Six operations on packets are fill, add, copy, send, decode and one
more, or two copies in a row; the theorems have no bound.
More data in front of a damage or behind it changes nothing of `Checksum` (proved), so the
first damaged byte is the first one and the data ends where the damage does; 4096 bytes are
just more than a period of `egts_crc16`. In a header a pair of bits at the period exists only
with the first bit of `prv`, and with that bit changed the bytes are no header to the search. Sizes in
`PacketEncoder` are the real ones, taken just below, at and above each comparison. A third thread adds no step to `ErrorHandler` that two do not have.
The number of reports bounds re-entry; the theorems have no such bound. A modulus of 40 is more
than a frame of two records and its overshoot, so that those are the frames in which `pos` does
not wrap, and less than the limit of the long ones, in which it wraps to 0, to 2 and, behind
these, to wherever their subrecords lead; the offsets are compared with nothing else.

The four violations are findings, quoted in `PROJECT.json`:

1. the route's five bytes are counted in `hl` and again in `pack_size` (egts_packet.cpp:273);
2. in a frame of more than 65513 bytes the 16-bit `pos` can come back to a subrecord that was
   read before, and `SetData` never returns (egts_packet.cpp:141);
3. the limit is compared with a wrapped sum, or not at all without records (egts_packet.cpp:362);
4. `SetErrorCallback` takes no lock, and a null pointer can be called (egts_common.cpp:16).

Other disagreements between writing and reading are stated as the exact exceptions of
properties that hold: `Lossy` and `Underread` name the objects that do not survive a round
trip or whose successor is not found, `Turns` those whose reported size wraps, `Spills` and
`NoRoomForPadding` those for which a buffer is too small. An exception is an equivalence where it
can be (`Restored <=> ~Lossy`): if the code is repaired the run fails and says so.

## 4. Fairness

- `PacketReader`: `WF(Arrive)` - the rest of a stream that was sent arrives; `WF(Receive)` -
  the caller looks at its buffer again. Without the first there is nothing to decode, without
  the second nobody decodes. Nothing is assumed of which outcome a call has: it is determined.
- `PacketDelivery!FairSpec` is what follows for the abstract reader, and is checked, not assumed.
- `RecordWalk`: `WF(Next)` - a call of a function goes on for as long as it can. That it returns
  is the question: `WalkEnds` says that it does unless `pos` wraps, and the counterexample to
  `WalkReturns` is a loop of steps, not a call that stands still.
- `ErrorHandler`: `WF` of a thread's steps inside `HandleAnError` and of its callback: threads
  are scheduled and callbacks return. Nothing is assumed of the mutex: weak fairness of `Lock`
  is enough since only as many threads compete as there are reports left. `Raise` and
  `SetErrorCallback` are not fair: nobody has to call them.

## 5. What is proved

`PacketReaderProofs`, for every set of streams, lengths and positions of headers:

- `TypeCorrect`; `NothingIsSkipped`, `BytesAreReadOnce` and `DeliveryIsExact`: the conjunction
  `ReadInv` of the three is inductive together with the types. The seven outcomes of a
  call are first shown to be two (`OutcomeOfReceive`): `GiveUp` frees bytes in front of the
  first header and accepts nothing, `TakeWhole` consumes one packet and accepts it exactly if
  it is acceptable. Each part of the invariant is then proved for these two: what is taken
  next lies behind all that was taken, because `freed` does.
- `AcceptedPacketsAreIntact`: without `AUX_MODE`; `NoStaleField`: directly from the actions.
- `ReadingImplementsDelivery`: `Spec => Delivery!Spec`, with the cursor mapped to `freed`;
  `Arrive` and a call that frees nothing are stutters, `Search` and `WaitForRest` skip,
  the others take.
- `CleanStreamInStep` and `CleanStreamAdvances`: in a stream of whole packets the cursor stands
  where a packet begins, what is in front of it was delivered, and once all has arrived every
  call delivers the next packet. `Clean` says that packets do not overlap and that all of them
  are headers, which the proof needs and every stream of a sender has. `CleanInv` speaks of the
  packets taken, since what a call delivers depends on what it takes.
- `ReadingEnds`, for any stream: a call that frees nothing although all has arrived leaves no
  header unsettled, but for those at or behind a header that announces more bytes than there are.

`RecordWalkProofs`, for every frame that `fdl` can give the length of: `TypeCorrect`,
`ShortFramesDoNotTurn`, `WalkLeadsOn` (`WalksOn`), `WalkIsBounded`, `WalkStaysNearFrame`,
`NothingDecodedTwice` (`DecodedInOrder`). All rest on `WalkInv`: inside a record `base < size` and
`base + pos <= size + 3 + Overshoot`, and until `pos` has wrapped `rl = pos - HeadLen` and the
subrecords kept end in front of `pos`. A subrecord is only read while `pos` is in front of the
frame's end, so one step cannot take it further than that limit; hence it wraps only if the limit
is not below 65536, that is in frames of more than 65513 bytes (`Long`). In those
the same is proved up to there: `WalksOn` excepts the step that cuts `pos`, `WalkIsBounded` counts
the steps in front of it, and `DecodedInOrder` speaks of what was read before it.

For every frame too: `DamageStaysBehind` (`IntactPrefixDecoded`) and
`CleanFramesAreDecoded`. As long as a record is intact, the subrecords kept are those that were
sent, and `pos` stands behind as many of them (`Following`). So the loop, which compares `pos`
with a length, stops behind the last one and nowhere else, and the next record is looked for
where it was put. `SentAssumption` says where an intact record's subrecords are in a frame:
one behind the other, which is what `GetData` writes.

`SubrecordCodecProofs`, for every object of the 26 classes, with any presence bits, lists of
any length, any capacity of the counters and every number of bytes that arrives:
`TypeCorrect`, `WritesStayInside` (`WritesInsideBuffer`), `ReadsStayInside`
(`ReadsInsideData`), `CutsAreNoticed` (`CutDataNoticed`), `LengthIsTaken` (`TakesItsLength`),
`OvershootIsBounded` (`OvershootBounded`) and `ObjectsSurvive` (`RoundTrip`). The machine is the
easy part: `IInv` says that the buffer holds the first parts, each at the sum of the sizes in
front of it, that `fields` come from items that were reached and passed (`Taken`), that none of
the items passed so far is missing from them (`Kept`), and that the call returned 1 exactly if
every item passes. `Kept` is needed for `ObjectsSurvive` alone: without it the invariant
bounds what `SetSRD` keeps from above only. `ReportInv` adds the reported size, which differs
from what is taken and the header exactly where it wraps (`ReportedSum`). The work is in the
classes:

- sums over lists, by induction; then what a list of parts has in bytes (`Makes`) and where
  the items of a list stop (`Exact`: all checks are in front of as many bytes as are read;
  `Ahead`: they look further ahead; `Calm`: nothing is checked; `Stands`: the three together,
  with a bound on what is read);
- of every class, what it writes (`X_Writes`) and what it reads (`X_Reads`);
- that this is fair (`X_Fair`): the buffer holds the parts or the object `Spills`, reads are
  inside or the class is the one exception, a cut is noticed or the class is `Elastic`, and
  what was written is passed to its end. `ObjectFair` collects them;
- and of every class whether the fields that its items fill are the parts that were written
  (`Back`). The items mirror the parts (`Mirrors`: as many bytes, and from any offset the same
  fields at the same places); a pair that does mirror stays one when it is put behind another,
  under a presence bit, or repeated for a list (`MirrorsBoth`, `MirrorsEach`), so that a class
  follows from its fields one by one. What the code loses is a lemma of its own for each class
  in `Lossy`: a field that is never filled with the bytes it has (`Keeping`, as the events of
  TEPMainData), parts that are written and never read (`Within`, where a counter starts again
  from 0), and the doors of TPassengers, which come back exactly if the list is in the order of
  their bits (`Rising`, `InOrder`).

`PacketEncoderProofs`, for all packets of any sizes: `TypeCorrect`, `BuffersHold`,
`LimitIsExact`, `WrittenWhole` (`LengthsAgree`), `ReaderAgrees`. The sums are modulo 65536, and
`EncoderInv` says when that does not matter: a sum that has not reached `Modulus` is the sum
over the integers (`Counted`, `Summed`), one that has belongs to a frame over the limit. With
`Frame <= MaxFrame` all sizes are exact, and header, route, padding and checksum have to fit
between `MaxFrame` and `Modulus`. What a sum over a list is (nothing for none, one summand
more for one element more, never negative) is proved by induction (`RecordSums`, `FrameSums`).

`PacketObjectsProofs`, for any number of packets and operations: `PacketsAreValues`
(`ContentAsMeant`), `EncryptionHolds` (`EncryptionAsAsked`), `CopiesKeepFront`
(`CopyKeepsFront`), `LoopsAreComplete` (`LoopVisitsAll`). `AskedInv` adds the message to the
packets, since decoding takes the header from there, and so does `MeantInv` for the content:
what was meant holds of every packet that is not excused (`Holds`) and of the message on the
wire (`Carries`). It adds that a signature is as long as it says, because `GetData` copies that
many bytes, and there is one lemma for each operation (`FillMeans`, `AddMeans`, ...). What
comes back is what was sent but for empty records; that a filter leaves the others in
their order, however the lists are put together, is again an induction (`KeptOfAppend`). A copy
has no record too many because the encryption bit of the source is cleared first: without padding
there is no empty record to find. It has none too few up to the first record that is not read
back (`FoundFacts`), since a frame that has records is not empty (`EmptyFrame`), so that
`SetData` does not stop in front of them. `LoopInv` says of every state of a loop that what it has
seen and what is left behind the cursor (`Rest`) are all of the records; `Next` and `Erase` both
move the head of `Rest` over (`MovesOn`).

`ChecksumProofs`, for all data of any length: `DamageAloneDecides` (`DamageDecides`),
`OneDamagedByteIsNoticed` and `BurstsAreNoticed` (`BurstNoticed`). Xor goes through every part
of a step because it goes through the tables (`TablesLinear`, evaluated by TLC entry by entry);
so the distance of the sender's register from the receiver's depends on the damage alone, and
no step maps a distance to none. For bursts `BurstInv` keeps the distance as long as the damage
lies one or two bytes back (`ApartInv`) and says that the checksum's bytes arrive with the damage
that was done to them (`GotInv`); so a message is accepted exactly if the checksum is damaged by
the distance (`AcceptedIf`), and the second byte of a burst never is that distance, except in
the one case that the property names.
`BitPairsAreNoticed` (`BitPairNoticed`) needs more: a damaged bit is a power of x, and every byte
behind it adds eight to its exponent (`PairInv`, `PowerByte`), so two bits hide each other if
their powers agree. TLC evaluates that 1 comes back after 127 divisions by the one polynomial and
32767 by the other, and for each prime factor of these that it does not without it (`Orders`);
from this the powers agree exactly at multiples of the period (`AgainPrime`, `SamePower`), for
messages of any length.

`FieldAccessorsProofs`, for all values: `ValuesComeBack` (`ReadsBack`) and `MessagesTell`
(`BitsTell`), with one invariant for the object that is filled and the one that was received
(`Told`).

`ErrorHandlerProofs`, for any threads, reports and callbacks: `TypeCorrect`, `LockGoesBack`,
`ReportsAreWhole`. The invariant adds to the types and the lock what a thread has stored so
far (`StoredStays`): fields below `stored` are its own, and nobody else stores because
everybody in the section owns the mutex.
`ReportsGetOn` counts the steps that are left of a report (`Rank`): its thread's steps take them
down and nobody's step puts them up again. `NobodyWaitsInVain` says that the owner of the mutex
is on its way to unlock it unless the handler is `Blocked`.

Inductions are proved where they are needed (`HasLeast`, `Induction`): a set of numbers has a
least element, because `<` is well-founded on them, so a set with 0 and, with every number, the
next one is all of them. A statement about lists is proved of the set of the lengths for which it
holds. The library's own induction theorems take an operator as a parameter, which none
of the provers can instantiate.

Assumptions are those on the constants, named in the modules: streams, frames and objects are
well formed (`IsStream`, `IsFrame`, `IsSent`, `IsPacket`, `IsObject`), the tables are what they
are called (`Polynomials`, `Orders`, `TablesLinear` and the like), the headers of `PacketObjects`
have fields of their widths (`Heads`), a record is not shorter than its head and does not look
like padding (`RecordsAssumption`), a signature is as long as it says (`SignaturesAssumption`),
the model values differ. TLC evaluates them in every run.

Model-checked only: liveness (`CleanStreamDelivered`, `EveryPacketSettled`, `WalkEnds`,
`EveryReportEnds`, the fairness half of the refinement), since fairness and ENABLED are out of
the prover's reach. What is left to it is small, because the rest of each argument is proved:
that a step which can be taken leads to the end, and by how much.

| Property | What is proved of it | What TLC adds |
|---|---|---|
| `CleanStreamDelivered` | `CleanStreamInStep`, `CleanStreamAdvances` | bytes arrive, `SetData` is called again |
| `EveryPacketSettled` | `ReadingEnds`, `NothingIsSkipped` | the same |
| `WalkEnds` | `WalkIsBounded` (`Budget` goes down until `pos` wraps), `ShortFramesDoNotTurn` | a step can be taken until the call returns |
| `EveryReportEnds` | `ReportsGetOn` (`Rank` goes down), `NobodyWaitsInVain` | the scheduler runs every thread; who gets a free mutex |

## 6. What is not modelled

- The values of fields that are only copied, strings and their formatting; the rounding of
  coordinates to the units of their fields (it is done in `double`).
- The cipher, but for its padding and what another key shows; that `SetData` decrypts in the
  caller's buffer (egts_packet.cpp:302), which matters to a caller that reads bytes again
  although `*ppos` freed them.
- Compression (`TEPCompData::Compress`, `Extract` call TZLib) and the `Copy` functions between
  subrecord classes.
- The Windows mutex, which its owner may lock twice; builds without THREADSAFE_MODE that use
  one thread; `new` that throws; `egts_crc_xor`, which nothing calls; the example program but
  for its use of one packet.
- What the lists hold after `pos` has wrapped, and how the memory ends in which they grow; what
  happens behind an overrun. Values of 2^31 and more are outside `FieldAccessors`.
- A build with `AUX_MODE`, which accepts a frame with a wrong checksum and reports it, is a
  constant of `PacketReader`; no run sets it, and `AcceptedPacketsAreIntact` is about the others.

## 7. Plan

Done: all the above. What could come next, in this order:

1. `PacketReader` over `PacketObjects`: a caller that keeps its buffer after a decryption.
2. The `Copy` functions, as pairs of tables of `SubrecordLayout`.
