-------------------------------- MODULE Keys --------------------------------
(***************************************************************************)
(* The storage-key layout of pkg/utils/keys.go.                            *)
(*                                                                         *)
(* A key is a sequence of big-endian 8-byte words.  Byte-wise order on     *)
(* such keys is the lexicographic order on the words, a proper prefix      *)
(* being the smaller key, so a key is modelled as a sequence of words.     *)
(* WordMod stands for 2^64: words are 0 .. WordMod-1 and signed 64-bit     *)
(* values wrap at WordMod \div 2.                                          *)
(***************************************************************************)
EXTENDS Integers, Sequences

CONSTANT WordMod

ASSUME WordModAssumption == WordMod \in Nat /\ WordMod > 3 /\ WordMod % 2 = 0

Word == 0 .. WordMod - 1

(* Signed 64-bit addition, as Go's int64 "+" wraps. *)
HalfMod == WordMod \div 2

AddInt64(a, b) == ((a + b + HalfMod) % WordMod) - HalfMod

(* Unsigned 64-bit increment. *)
IncUint64(w) == (w + 1) % WordMod
-----------------------------------------------------------------------------
(* A time in Unix milliseconds to its bucket; bucketMs is the bucket size  *)
(* in whole milliseconds, 0 meaning "the raw timestamp".                   *)
CalculateBucket(unixMs, bucketMs) ==
    IF unixMs <= 0 THEN 0
    ELSE IF bucketMs <= 0 THEN unixMs
    ELSE unixMs \div bucketMs

EventKey(bucket, topicHash, eventID) == <<topicHash, bucket, eventID>>

TopicLowerBound(topicHash) == <<topicHash>>

DueUpperBound(topicHash, maxBucket) == <<topicHash, IncUint64(maxBucket)>>

(* Byte-wise order of two keys. *)
KeyLess(a, b) ==
    \/ \E i \in DOMAIN a \cap DOMAIN b :
          /\ a[i] < b[i]
          /\ \A j \in 1 .. i - 1 : a[j] = b[j]
    \/ /\ Len(a) < Len(b)
       /\ \A j \in DOMAIN a : a[j] = b[j]

(* A range scan yields the keys k with lower <= k < upper. *)
InScanRange(k, lower, upper) == ~KeyLess(k, lower) /\ KeyLess(k, upper)
=============================================================================
