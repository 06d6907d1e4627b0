--------------------------- MODULE ExpertParallel ---------------------------
(***************************************************************************)
(* The sparse MLP over an expert group (qwen3_5_text.cc                    *)
(* mlp_expert_parallel, expert_parallel.cc): every rank routes its tokens  *)
(* to the ranks of the experts they chose, in blocks of the largest size   *)
(* any of them needs; the owners sort what they got by expert, apply the   *)
(* experts and send the results back to the slots they came in.            *)
(*                                                                         *)
(* A case c gives ep, experts, and choice[rank][token], the sequence of    *)
(* experts the token chose; the weight of a choice is named by its place.  *)
(* Ranks are places in the group.                                          *)
(***************************************************************************)
EXTENDS Integers, Sequences, FiniteSets, Bags, SequencesExt

Empty == -1

PerRank(c) == c.experts \div c.ep
EpRanks(c) == 1..c.ep
Indices(seq) == [i \in DOMAIN seq |-> i]
SumOf(seq, n) == FoldLeft(LAMBDA sum, x : sum + x, 0, SubSeq(seq, 1, n))

(* One route for each token and each expert it chose, in that order.       *)
Routes(c, r) ==
    FlattenSeq([t \in DOMAIN c.choice[r] |->
        [s \in DOMAIN c.choice[r][t] |->
            [token |-> t, slot |-> s, expert |-> c.choice[r][t][s]]]])
Destination(c, route) == (route.expert \div PerRank(c)) + 1

Counts(c, r) ==
    LET routes == Routes(c, r)
    IN  [d \in EpRanks(c) |->
            Cardinality({i \in DOMAIN routes : Destination(c, routes[i]) = d})]

(* All ranks agree on the largest count of any of them.                    *)
Capacity(c, r) ==
    LET counts == UNION {ToSet(Counts(c, q)) : q \in EpRanks(c)}
    IN  CHOOSE n \in counts : \A m \in counts : m <= n

(* What rank r sends: its routes, their order by destination, and the slot *)
(* of each in a payload of that size.                                      *)
Dispatch(c, r) ==
    LET routes == Routes(c, r)
        to == [i \in DOMAIN routes |-> Destination(c, routes[i])]
        order == SortSeq(Indices(routes),
                         LAMBDA i, j : to[i] < to[j] \/ (to[i] = to[j] /\ i < j))
        capacity == Capacity(c, r)
        offset(i) == i - 1 - SumOf(Counts(c, r), to[order[i]] - 1)
    IN  [routes |-> routes,
         order |-> order,
         at |-> [i \in DOMAIN order |-> (to[order[i]] - 1) * capacity + offset(i) + 1],
         size |-> c.ep * capacity]

(* The columns of the routes: tokens, experts, and places among a token's  *)
(* choices, which stand for the weights.                                   *)
TokenIndices(plan) == [i \in DOMAIN plan.routes |-> plan.routes[i].token]
ExpertIndices(plan) == [i \in DOMAIN plan.routes |-> plan.routes[i].expert]
RouteWeights(plan) == [i \in DOMAIN plan.routes |-> plan.routes[i].slot]

(* The value of each route in its slot, nothing elsewhere.                 *)
Payload(plan, value) ==
    [p \in 1..plan.size |->
        IF p \in ToSet(plan.at)
          THEN value[plan.order[CHOOSE i \in DOMAIN plan.at : plan.at[i] = p]]
          ELSE Empty]

(* The d-th of the equal parts of every rank's input goes to rank d.       *)
AllToAll(c, input) ==
    [r \in EpRanks(c) |->
        FlattenSeq([q \in EpRanks(c) |->
            LET part == Len(input[q]) \div c.ep
            IN  SubSeq(input[q], (r - 1) * part + 1, r * part)])]

Received(c, plan) ==
    [tokens |-> AllToAll(c, [r \in EpRanks(c) |->
                    Payload(plan[r], [i \in DOMAIN plan[r].routes |-> <<r, TokenIndices(plan[r])[i]>>])]),
     experts |-> AllToAll(c, [r \in EpRanks(c) |->
                    Payload(plan[r], ExpertIndices(plan[r]))])]

-----------------------------------------------------------------------------
(* The owner of the experts: got is what the rank received.                *)

Mine(c, r, experts) ==
    SelectSeq(Indices(experts),
              LAMBDA p : experts[p] # Empty /\ experts[p] \div PerRank(c) = r - 1)

(* Experts that got a token, by local id, and how many each got.           *)
ActiveIds(c, r, experts) ==
    LET ids == {experts[p] - (r - 1) * PerRank(c) : p \in ToSet(Mine(c, r, experts))}
    IN  SelectSeq([e \in 1..PerRank(c) |-> e - 1], LAMBDA e : e \in ids)
ActiveCounts(c, r, experts) ==
    LET ids == ActiveIds(c, r, experts)
    IN  [n \in DOMAIN ids |->
            Cardinality({p \in ToSet(Mine(c, r, experts)) :
                            experts[p] - (r - 1) * PerRank(c) = ids[n]})]

(* Mutant: the rows stay in the order they came in.                        *)
Sorted_arrival(c, r, experts) == Mine(c, r, experts)

(* The rows of an expert behind one another, in the order they came in.    *)
Sorted(c, r, experts) ==
    SortSeq(Mine(c, r, experts),
            LAMBDA p, q : experts[p] < experts[q] \/ (experts[p] = experts[q] /\ p < q))

(* _grouped_mm: row i belongs to the first group that ends behind it; the  *)
(* n-th weight of the stack is that of the n-th active expert.             *)
GroupedExpert(c, r, experts, i) ==
    LET counts == ActiveCounts(c, r, experts)
        group == CHOOSE n \in DOMAIN counts :
                     SumOf(counts, n - 1) < i /\ i <= SumOf(counts, n)
    IN  ActiveIds(c, r, experts)[group] + (r - 1) * PerRank(c)

(* <<expert, token>> in the slots of the tokens for this rank's experts.   *)
LocalReturn(c, r, got) ==
    LET rows == Sorted(c, r, got.experts[r])
    IN  [p \in DOMAIN got.tokens[r] |->
            IF p \in ToSet(rows)
              THEN <<GroupedExpert(c, r, got.experts[r], CHOOSE i \in DOMAIN rows : rows[i] = p),
                     got.tokens[r][p]>>
              ELSE Empty]
Returned(c, got) == AllToAll(c, [r \in EpRanks(c) |-> LocalReturn(c, r, got)])

(* The weighted results, added to the token the rank noted for each slot.  *)
Output(c, r, plan, returned) ==
    LET source == Payload(plan[r], TokenIndices(plan[r]))
        weight == Payload(plan[r], RouteWeights(plan[r]))
        slots(t) == SelectSeq(Indices(source), LAMBDA p : source[p] = t)
    IN  [t \in DOMAIN c.choice[r] |->
            FoldLeft(LAMBDA sum, p : sum (+) SetToBag({<<returned[r][p], weight[p]>>}),
                     EmptyBag, slots(t))]

(* Backward: an all-to-all is its own.  The gradients of the results, at   *)
(* the owner; of an expert's weights; and of the tokens through it.        *)
SlotGrads(c, plan) ==
    AllToAll(c, [r \in EpRanks(c) |->
        Payload(plan[r], [i \in DOMAIN plan[r].routes |->
                             <<r, TokenIndices(plan[r])[i], RouteWeights(plan[r])[i]>>])])
ExpertGrad(c, expert, got, grads) ==
    LET r == (expert \div PerRank(c)) + 1
        seen == SelectSeq(Sorted(c, r, got.experts[r]), LAMBDA p : got.experts[r][p] = expert)
    IN  FoldLeft(LAMBDA sum, p : sum (+) SetToBag({<<got.tokens[r][p], grads[r][p]>>}),
                 EmptyBag, seen)
TokenGrad(c, r, plan, got, grads) ==
    LET back == AllToAll(c, [q \in EpRanks(c) |->
                    [p \in DOMAIN grads[q] |-> <<got.experts[q][p], grads[q][p]>>]])[r]
        sent(t) == SelectSeq(Indices(plan[r].at),
                             LAMBDA i : plan[r].routes[plan[r].order[i]].token = t)
    IN  [t \in DOMAIN c.choice[r] |->
            FoldLeft(LAMBDA sum, i : sum (+) SetToBag({back[plan[r].at[i]]}), EmptyBag, sent(t))]

-----------------------------------------------------------------------------
(* Against the sparse MLP of one rank, which has all experts.              *)

Chosen(c) ==
    UNION {UNION {{[rank |-> r, token |-> t, slot |-> s, expert |-> c.choice[r][t][s]] :
                     s \in DOMAIN c.choice[r][t]} : t \in DOMAIN c.choice[r]} : r \in EpRanks(c)}
Name(x) == <<x.rank, x.token, x.slot>>

SameExpertsAsDense(c) ==
    \E plan \in {[r \in EpRanks(c) |-> Dispatch(c, r)]} :
    \E got \in {Received(c, plan)} :
    \E returned \in {Returned(c, got)}, grads \in {SlotGrads(c, plan)} :
    LET of(r, t) == {x \in Chosen(c) : x.rank = r /\ x.token = t}
    IN  /\ \A r \in EpRanks(c) :
              /\ Output(c, r, plan, returned) = [t \in DOMAIN c.choice[r] |->
                    SetToBag({<<<<x.expert, <<r, t>>>>, x.slot>> : x \in of(r, t)})]
              /\ TokenGrad(c, r, plan, got, grads) = [t \in DOMAIN c.choice[r] |->
                    SetToBag({<<x.expert, Name(x)>> : x \in of(r, t)})]
        /\ \A e \in 0..(c.experts - 1) :
              ExpertGrad(c, e, got, grads) =
                  SetToBag({<<<<x.rank, x.token>>, Name(x)>> :
                              x \in {y \in Chosen(c) : y.expert = e}})
=============================================================================
