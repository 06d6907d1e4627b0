---------------------------- MODULE GradBuckets ----------------------------
(***************************************************************************)
(* The buckets of parallel_ops.cc and weight_sync.cc.  Gradients and       *)
(* weights do not travel one tensor at a time: a rank goes through its own *)
(* list, fills a bucket until the next tensor does not fit or is of        *)
(* another kind (dtype, device), and each bucket is one collective.  No    *)
(* rank tells another where it cut, so the cuts have to be the same.       *)
(*                                                                         *)
(* An entry is [name, size, kind]; a bucket is a sequence of entries.      *)
(***************************************************************************)
EXTENDS Integers, Sequences, SequencesExt

Open == [closed |-> <<>>, current |-> <<>>, size |-> 0]

Flush(b) ==
    IF b.current = <<>> THEN b
    ELSE [closed |-> Append(b.closed, b.current), current |-> <<>>, size |-> 0]

Put(b, e) == [b EXCEPT !.current = Append(@, e), !.size = @ + e.size]

(* A bucket always takes a first entry, however large.                     *)
Fits(b, e, limit) ==
    b.current # <<>> => b.current[1].kind = e.kind /\ b.size + e.size <= limit

Buckets(entries, limit) ==
    LET Add(b, e) == Put(IF Fits(b, e, limit) THEN b ELSE Flush(b), e)
        filled[i \in 0..Len(entries)] ==
            IF i = 0 THEN Open ELSE Add(filled[i - 1], entries[i])
    IN  Flush(filled[Len(entries)]).closed

BucketSize(bucket) ==
    LET upTo[i \in 0..Len(bucket)] == IF i = 0 THEN 0 ELSE upTo[i - 1] + bucket[i].size
    IN  upTo[Len(bucket)]

(* flatten_grad_bucket: the entries' values one after the other.           *)
FlattenBucket(bucket, value) ==
    FlattenSeq([i \in DOMAIN bucket |-> value[bucket[i].name]])

(* Where an entry begins in the flat buffer when it is copied back.        *)
Offset(bucket, i) == BucketSize(SubSeq(bucket, 1, i - 1))

Unflatten(bucket, flat, value) ==
    [n \in DOMAIN value |->
        IF \E i \in DOMAIN bucket : bucket[i].name = n
          THEN LET i == CHOOSE j \in DOMAIN bucket : bucket[j].name = n
               IN  [k \in 1..bucket[i].size |-> flat[Offset(bucket, i) + k]]
          ELSE value[n]]
=============================================================================
