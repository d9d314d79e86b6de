---------------------------- MODULE LoggerLists -----------------------------
(***************************************************************************)
(* The linked lists of AP_Logger_MAVLink: dm_block::next, the free stack   *)
(* and the three queues of blocks, and the operations on them.             *)
(***************************************************************************)
EXTENDS Integers, Sequences

CONSTANT BlockCount \* _blockcount

\* Init() allocates no fewer than 8 blocks.
ASSUME BlockCountAssumption == BlockCount \in Nat \ {0}

Blocks == 1 .. BlockCount
Nil    == 0
Queues == {"pending", "sent", "retry"}
Empty  == [oldest |-> Nil, youngest |-> Nil]

\* The blocks reached from b; a list that runs in a circle is cut off.
Chain(next, b) ==
    LET From[n \in 0 .. BlockCount + 1] ==
            [x \in Blocks \cup {Nil} |->
                IF n = 0 \/ x = Nil THEN <<>> ELSE <<x>> \o From[n - 1][next[x]]]
    IN  From[BlockCount + 1][b]
ListOf(L, q) == Chain(L.next, L.queue[q].oldest)
FreeStack(L) == Chain(L.next, L.free)

enqueue_block(L, q, b) ==
    LET y == L.queue[q].youngest IN
    [L EXCEPT !.next = IF y # Nil THEN [@ EXCEPT ![y] = b] ELSE @,
              !.queue[q] = [oldest |-> IF y # Nil THEN @.oldest ELSE b, youngest |-> b]]

\* Mutant: the youngest block is still that of before.
dequeueKeepsYoungest(L, q, i) ==
    LET w == ListOf(L, q)   b == w[i]   y == L.queue[q].youngest
    IN  IF i = 1
        THEN [L EXCEPT !.queue[q] = IF y = @.oldest THEN Empty
                                    ELSE [@ EXCEPT !.oldest = L.next[b]],
                       !.next[b] = Nil]
        ELSE [L EXCEPT !.next = [@ EXCEPT ![w[i - 1]] = L.next[b], ![b] = Nil]]

\* dequeue_seqno(), when the block is found at the place i.
dequeue(L, q, i) ==
    LET w == ListOf(L, q)   b == w[i]   y == L.queue[q].youngest
    IN  IF i = 1
        THEN [L EXCEPT !.queue[q] = IF y = @.oldest THEN Empty
                                    ELSE [@ EXCEPT !.oldest = L.next[b]],
                       !.next[b] = Nil]
        ELSE [L EXCEPT !.queue[q].youngest = IF y = b THEN w[i - 1] ELSE @,
                       !.next = [@ EXCEPT ![w[i - 1]] = L.next[b], ![b] = Nil]]

PushFree(L, b) == [L EXCEPT !.next[b] = L.free, !.free = b, !.count = @ + 1]

\* Mutant: _blockcount_free still counts the block.
PopFreeKeepsCount(L) == [L EXCEPT !.free = L.next[L.free], !.next[L.free] = Nil]
PopFree(L) == [L EXCEPT !.free = L.next[L.free], !.next[L.free] = Nil, !.count = @ - 1]

free_all_blocks ==
    [next |-> [b \in Blocks |-> b - 1], queue |-> [q \in Queues |-> Empty],
     free |-> BlockCount, count |-> BlockCount]

\* send_log_blocks_from_queue(): the n oldest blocks go to the sent queue.
SendFrom(L, q, n) ==
    LET Move[k \in 0 .. n] ==
            IF k = 0 THEN L
            ELSE LET M == Move[k - 1]   b == M.queue[q].oldest
                 IN  enqueue_block(dequeue(M, q, 1), "sent", b)
    IN  Move[n]

\* The n oldest blocks of a queue.
Oldest(L, q, n) == {ListOf(L, q)[i] : i \in 1 .. n}
=============================================================================
