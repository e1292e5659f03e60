---------------------------- MODULE VirtualMemory ----------------------------
(***************************************************************************)
(* What my_vm.c promises its clients: n_malloc hands out runs of pages     *)
(* that overlap no other allocation, bytes keep the value last put until   *)
(* the allocation is freed, and every call takes effect at one instant.    *)
(* There is no page table, no TLB and no frame here.                       *)
(***************************************************************************)
EXTENDS Integers, Sequences

CONSTANTS PGSIZE, num_virtual_pages, Bytes, Junk, Sizes

VARIABLES
    live,       \* allocations: first page and bytes asked for
    contents,   \* value of each byte of the live allocations, by address
    ret         \* what the last call returned

vars == <<live, contents, ret>>

NoRet == [op |-> "none", page |-> 0, off |-> 0, ok |-> TRUE, data |-> <<>>]

\* Addresses of an allocation, and the pages they take up.
BytesOf(a) == (a.page * PGSIZE) .. (a.page * PGSIZE + a.bytes - 1)
PagesOf(a) == a.page .. (a.page + ((a.bytes + PGSIZE - 1) \div PGSIZE) - 1)

LiveBytes == UNION {BytesOf(a) : a \in live}

Init == live = {} /\ contents = << >> /\ ret = NoRet

Malloc(bytes) ==
    \E a \in [page : 1 .. (num_virtual_pages - 1), bytes : {bytes}] :
        /\ PagesOf(a) \subseteq 1 .. (num_virtual_pages - 1)
        /\ \A b \in live : PagesOf(a) \cap PagesOf(b) = {}
        /\ live' = live \cup {a}
        /\ ret' = [NoRet EXCEPT !.op = "malloc", !.page = a.page]
        /\ contents' \in [LiveBytes' -> Bytes \cup {Junk}]
        /\ \A b \in LiveBytes : contents'[b] = contents[b]

MallocFails ==
    /\ ret' = [NoRet EXCEPT !.op = "malloc"]
    /\ UNCHANGED <<live, contents>>

\* The allocation is gone when the call is made, and the call returns later.
Free(a) ==
    /\ live' = live \ {a}
    /\ contents' = [b \in LiveBytes' |-> contents[b]]
    /\ UNCHANGED ret

FreeReturns ==
    /\ ret' = [NoRet EXCEPT !.op = "free"]
    /\ UNCHANGED <<live, contents>>

\* The bytes from b on take the values of data.
Put(b, data) ==
    /\ b .. (b + Len(data) - 1) \subseteq LiveBytes
    /\ contents' = [c \in LiveBytes |->
                      IF c \in b .. (b + Len(data) - 1)
                        THEN data[c - b + 1] ELSE contents[c]]
    /\ UNCHANGED <<live, ret>>

PutReturns(page, off) ==
    /\ ret' = [op |-> "put", page |-> page, off |-> off, ok |-> TRUE,
               data |-> <<>>]
    /\ UNCHANGED <<live, contents>>

Get(page, off, n) ==
    LET b == page * PGSIZE + off
    IN  /\ b .. (b + n - 1) \subseteq LiveBytes
        /\ ret' = [op |-> "get", page |-> page, off |-> off, ok |-> TRUE,
                   data |-> [i \in 1..n |-> contents[b + i - 1]]]
        /\ UNCHANGED <<live, contents>>

\* Calls about no bytes return at once: n_free has nothing to unmap, put_data
\* and get_data refuse.
FreeNothing(a) ==
    /\ a.bytes = 0
    /\ live' = live \ {a}
    /\ ret' = [NoRet EXCEPT !.op = "free"]
    /\ UNCHANGED contents

AccessNothing(op, page, off) ==
    /\ 0 \in Sizes
    /\ ret' = [op |-> op, page |-> page, off |-> off, ok |-> FALSE,
               data |-> <<>>]
    /\ UNCHANGED <<live, contents>>

Next ==
    \/ \E n \in Sizes :
          \/ Malloc(n)
          \/ \E p \in 0 .. (num_virtual_pages - 1), o \in 0 .. (PGSIZE - 1) :
                \/ Get(p, o, n)
                \/ \E d \in [1..n -> Bytes] : Put(p * PGSIZE + o, d)
    \/ MallocFails
    \/ \E a \in live : Free(a) \/ FreeNothing(a)
    \/ FreeReturns
    \/ \E p \in 0 .. (num_virtual_pages - 1), o \in 0 .. (PGSIZE - 1) :
          PutReturns(p, o) \/ \E op \in {"put", "get"} : AccessNothing(op, p, o)

Spec == Init /\ [][Next]_vars

=============================================================================
