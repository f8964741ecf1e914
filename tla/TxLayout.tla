------------------------------ MODULE TxLayout ------------------------------
(***************************************************************************)
(* Where the recent blockhash lies in a serialised transaction, and where  *)
(* extract_blockhash finds it.                                             *)
(*                                                                         *)
(* Bytes are a function b of positions 0, 1, ...; the text holds the first *)
(* len of them.  A byte's high bit is b[i] >= 128, its low bits are        *)
(* b[i] % 128.  An Option is a set of at most one element.                 *)
(***************************************************************************)
EXTENDS Integers

Byte == 0..255
Block == 128 * 128         \* what a shortvec's third byte counts
MaxU16 == 4 * Block - 1
SigBytes == 64
KeyBytes == 32
HashBytes == 32

(***************************************************************************)
(* The code.                                                               *)
(***************************************************************************)

(* Lengths of the shortvec at a position: it ends at the first byte        *)
(* without the high bit, the third at the latest, and within the text.     *)
Sizes(b, len, at) ==
  {n \in 1..3 : /\ at + n <= len
                /\ b[at + n - 1] < 128
                /\ \A i \in 1..(n - 1) : b[at + i - 1] >= 128}

Value(b, at, n) ==
  (b[at] % 128)
    + (IF n > 1 THEN 128 * (b[at + 1] % 128) ELSE 0)
    + (IF n > 2 THEN Block * (b[at + 2] % 128) ELSE 0)

(* read_shortvec: its value, a u16, and the bytes consumed. *)
ReadShortvec(b, len, at) ==
  {[value |-> Value(b, at, n), size |-> n] :
     n \in {n \in Sizes(b, len, at) : Value(b, at, n) <= MaxU16}}

(* Past a version byte, if there is one, and the header's three bytes. *)
Mut_PastHeaderUnversioned(b, message) == message + 3
PastHeader(b, message) == message + (IF b[message] >= 128 THEN 1 ELSE 0) + 3

(* extract_blockhash: the position of the 32 bytes it takes. *)
Extracted(b, len) ==
  {o \in UNION {{PastHeader(b, sigs.size + SigBytes * sigs.value)
                   + keys.size + KeyBytes * keys.value :
                   keys \in ReadShortvec(b, len, PastHeader(b, sigs.size + SigBytes * sigs.value))} :
                sigs \in {s \in ReadShortvec(b, len, 0) : s.size + SigBytes * s.value < len}} :
     o + HashBytes <= len}

(***************************************************************************)
(* What clients send: a transaction of so many signatures and accounts,    *)
(* versioned or not.  Its first header byte is its number of signatures.   *)
(***************************************************************************)
Layouts == [sigs : 1..127, versioned : BOOLEAN, accounts : 1..MaxU16]

SizeOf(n) == IF n < 128 THEN 1 ELSE IF n < Block THEN 2 ELSE 3

(* The i-th byte of n as a shortvec. *)
ShortvecByte(n, i) ==
  IF i = 0 THEN IF n < 128 THEN n ELSE 128 + (n % 128)
  ELSE IF i = 1 THEN IF n < Block THEN n \div 128 ELSE 128 + ((n \div 128) % 128)
  ELSE n \div Block

MessageAt(x) == SizeOf(x.sigs) + SigBytes * x.sigs
AccountsAt(x) == MessageAt(x) + (IF x.versioned THEN 1 ELSE 0) + 3
BlockhashAt(x) == AccountsAt(x) + SizeOf(x.accounts) + KeyBytes * x.accounts
Ends(x) == BlockhashAt(x) + HashBytes

(* Keys, signatures and the rest are some bytes or other. *)
Serialized(x) ==
  [i \in Nat |->
     IF i < SizeOf(x.sigs) THEN ShortvecByte(x.sigs, i)
     ELSE IF i = MessageAt(x) THEN IF x.versioned THEN 128 ELSE x.sigs
     ELSE IF i \in AccountsAt(x)..(AccountsAt(x) + SizeOf(x.accounts) - 1)
       THEN ShortvecByte(x.accounts, i - AccountsAt(x))
     ELSE 255]

=============================================================================
