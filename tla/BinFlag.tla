------------------------------- MODULE BinFlag -------------------------------
(***************************************************************************)
(* The decoder of np-lab2 (2.cpp): read the blocks of a file, drop those   *)
(* whose XOR checksum does not match, lay the others out in dict, and read *)
(* the flag, two bytes at a time, from the offsets at the end of the file. *)
(*                                                                         *)
(* A byte is one bit here: XOR works on each bit alone.  The file is cut   *)
(* from true data, and a block of it may have one byte damaged.  A byte    *)
(* that the program reads but nobody wrote (heap memory that malloc left   *)
(* as it was, the byte after the payload of a block of odd length) has any *)
(* value.                                                                  *)
(***************************************************************************)
EXTENDS Integers, Sequences, FiniteSets

CONSTANTS
    BinData,        \* the true data, a sequence of bits
    BinBlocks,      \* n_blocks
    BinLengths      \* lengths of blocks

ASSUME BinDataAssumption == BinData \in Seq({0, 1})
ASSUME BinBlocksAssumption == BinBlocks \in Nat /\ BinLengths \subseteq Nat

BinSize == Len(BinData)

VARIABLES
    binPc,          \* "open", "read", "copy", "flag", "end"
    binBlocks,      \* blocks read so far: offset, length, payload, damaged
    binCheck,       \* check
    binDict,        \* dict: the value of each offset, BinJunk where unwritten
    binNext,        \* the block that the copying loop is at
    binFlag         \* the two bytes at each offset, as printed

binVars == <<binPc, binBlocks, binCheck, binDict, binNext, binFlag>>

BinJunk == 2

BinInit ==
    /\ binPc = "open" /\ binBlocks = <<>> /\ binCheck = <<>>
    /\ binDict = [o \in 0 .. BinSize - 1 |-> BinJunk]
    /\ binNext = 1 /\ binFlag = <<>>

\* open() fails and main returns, or the header is read and memory allocated.
BinOpen ==
    /\ binPc = "open"
    /\ binPc' \in {"end", "read"}
    /\ UNCHANGED <<binBlocks, binCheck, binDict, binNext, binFlag>>

\* The XOR of the 2-byte units of q, as <<high, low>>.
BinXorUnits(q) ==
    LET part[j \in 0 .. Len(q)] ==
            IF j = 0 THEN <<0, 0>>
            ELSE LET b == part[j - 1]
                 IN  IF j % 2 = 1 THEN <<(b[1] + q[j]) % 2, b[2]>>
                     ELSE <<b[1], (b[2] + q[j]) % 2>>
    IN  part[Len(q)]

\* The checksum of a payload; junk is the byte after one of odd length, which
\* the last unit takes in.
BinXor(p, junk) == BinXorUnits(IF Len(p) % 2 = 1 THEN Append(p, junk) ELSE p)

\* One turn of the first loop: a block of the file, and its check.  The
\* writer of the file computed cksum over the true payload, a byte 0 added.
BinReadBlock ==
    /\ binPc = "read" /\ Len(binBlocks) < BinBlocks
    /\ \E len \in BinLengths, off \in 0 .. BinSize - 1, bad \in 0 .. BinSize, junk \in {0, 1} :
          /\ off + len <= BinSize /\ bad <= len
          /\ LET right == [i \in 1 .. len |-> BinData[off + i]]
                 payload == [i \in 1 .. len |-> IF i = bad THEN 1 - right[i] ELSE right[i]]
                 block == [offset |-> off, length |-> len, payload |-> payload,
                           damaged |-> bad # 0]
             IN  /\ binBlocks' = Append(binBlocks, block)
                 /\ binCheck' = Append(binCheck, BinXor(payload, junk) = BinXor(right, 0))
    /\ UNCHANGED <<binPc, binDict, binNext, binFlag>>

BinAllRead ==
    /\ binPc = "read" /\ Len(binBlocks) = BinBlocks
    /\ binPc' = "copy"
    /\ UNCHANGED <<binBlocks, binCheck, binDict, binNext, binFlag>>

\* One turn of the second loop: a later block overwrites an earlier one.
BinCopy ==
    /\ binPc = "copy"
    /\ IF binNext > BinBlocks THEN binPc' = "flag" /\ UNCHANGED <<binDict, binNext>>
       ELSE LET b == binBlocks[binNext]
            IN  /\ binDict' = IF ~binCheck[binNext] THEN binDict
                              ELSE [o \in DOMAIN binDict |->
                                       IF o \in b.offset .. b.offset + b.length - 1
                                       THEN b.payload[o - b.offset + 1] ELSE binDict[o]]
                /\ binNext' = binNext + 1 /\ UNCHANGED binPc
    /\ UNCHANGED <<binBlocks, binCheck, binFlag>>

\* Mutant: the second byte is that of the next unit.
BinUnitSkip(o) == <<binDict[o], binDict[IF o + 2 < BinSize THEN o + 2 ELSE o]>>

BinUnit(o) == <<binDict[o], binDict[o + 1]>>

\* The offsets of the flag, and the bytes printed for them.
BinReadFlag ==
    /\ binPc = "flag"
    /\ \E o \in 0 .. BinSize - 2 : binFlag' = <<[offset |-> o, bytes |-> BinUnit(o)]>>
    /\ binPc' = "end"
    /\ UNCHANGED <<binBlocks, binCheck, binDict, binNext>>

BinNextStep == BinOpen \/ BinReadBlock \/ BinAllRead \/ BinCopy \/ BinReadFlag

BinSpec == BinInit /\ [][BinNextStep]_binVars

(***************************************************************************)
(* When every block has an even length, no damaged byte gets into the      *)
(* flag: what dict holds after any number of overwrites is true data or    *)
(* nothing.                                                                *)
(***************************************************************************)
BinDictClean ==
    (\A i \in DOMAIN binBlocks : binBlocks[i].length % 2 = 0) =>
        \A o \in DOMAIN binDict : binDict[o] \in {BinJunk, BinData[o + 1]}

(***************************************************************************)
(* When every block has an even length and undamaged blocks cover an       *)
(* offset of the flag and the next one, the true bytes are printed.        *)
(***************************************************************************)
BinFlagRight ==
    \A k \in DOMAIN binFlag :
        LET o == binFlag[k].offset
            covered(p) == \E i \in DOMAIN binBlocks :
                              /\ ~binBlocks[i].damaged
                              /\ p \in binBlocks[i].offset .. binBlocks[i].offset + binBlocks[i].length - 1
        IN  (\A i \in DOMAIN binBlocks : binBlocks[i].length % 2 = 0)
                /\ covered(o) /\ covered(o + 1)
            => binFlag[k].bytes = <<BinData[o + 1], BinData[o + 2]>>

\* The decoder as a whole: neither damage nor overwriting changes the flag
\* that 2.cpp prints, and it is printed wherever it can be.
BinDecodes ==
    /\ BinDictClean
    /\ BinFlagRight
=============================================================================
