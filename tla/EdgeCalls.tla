----------------------------- MODULE EdgeCalls ------------------------------
(***************************************************************************)
(* Calls across the enclave's edge, as the bridges (ecalls) and proxies    *)
(* (ocalls) of Enclave/Enclave_t.c make them: check the pointers, copy the *)
(* memory behind them to the other side, call, copy the results back and   *)
(* release the copies.  Threads share the enclave's heap; each has a stack *)
(* of calls, for an ocall may make an ecall in turn.                       *)
(*                                                                         *)
(* The contents of a buffer are one of: what the caller had there, zeros,  *)
(* what the callee wrote.  memcpy_s never fails here: its pointers are not *)
(* NULL and its sizes agree.                                               *)
(***************************************************************************)
EXTENDS EdgeTable, FiniteSets, Functions

CONSTANTS
  Threads,         \* thread slots of the enclave (TCSNum)
  Applications,    \* bound of the model: what one application calls
  HEAPMAXSIZE,     \* HeapMaxSize of Enclave.config.xml
  UNTRUSTEDSTACK,  \* bytes sgx_ocalloc can give to a thread
  WORDBITS,        \* width of size_t
  Lengths,         \* bound of the model: lengths passed beside a pointer
  MaxInits,        \* bound of the model: runs of ecall_handler_init
  None

ASSUME EdgeAssumption ==
  /\ IsFiniteSet(Threads)
  /\ \A a \in Applications :
       /\ a.threads \subseteq Threads
       /\ a.ecalls \subseteq DOMAIN g_ecall_table      \* the functions called, by name
       /\ a.ocalls \subseteq DOMAIN ocall_table
       /\ a.depth \in Nat                             \* calls on one stack
  /\ HEAPMAXSIZE \in Nat /\ UNTRUSTEDSTACK \in Nat
  /\ WORDBITS \in Nat /\ 2^WORDBITS \in Nat \ {0}
  /\ Lengths \subseteq 0 .. 2^WORDBITS - 1            \* they are size_t
  /\ MaxInits \in Nat

VARIABLES
  app,       \* the application
  stack,     \* per thread, its calls from the outermost to the innermost
  heap,      \* bytes allocated from the enclave's heap
  inits,     \* runs of ecall_handler_init; each keeps two keys for good
  ocalloc,   \* per thread, bytes allocated on the untrusted stack
  reply      \* per thread, how its last call ended

vars == <<app, stack, heap, inits, ocalloc, reply>>

Where == {"null", "outside", "inside"}     \* what a pointer points to
Contents == {"caller", "zero", "body"}
KEYBYTES == 32

(* None is no buffer and no reply. *)
ASSUME NoneAssumption == None \notin Contents

-----------------------------------------------------------------------------
(* Frames.                                                                 *)

ParamsOf(c) ==
  IF c.kind = "ecall" THEN g_ecall_table[c.fn].params ELSE ocall_table[c.fn].params

(* Whether the function called has a value to return.  A caller that gives *)
(* no place for it (retval = NULL) is not told apart.                      *)
Returns(c) == IF c.kind = "ecall" THEN g_ecall_table[c.fn].returns ELSE ocall_table[c.fn].returns

SIZE_MAX == 2^WORDBITS - 1

(* The bytes behind a pointer, in the arithmetic of size_t. *)
Size(p, n) == (p.unit * (IF p.sized THEN n ELSE 1)) % (SIZE_MAX + 1)

(* A buffer is needed for memory that is there and not empty. *)
Copied(c, i) ==
  LET p == ParamsOf(c)[i]
  IN  p.dir # "user_check" /\ c.ptr[i] # "null" /\ Size(p, c.n) # 0

Bytes(c) ==
  SumFunction([i \in DOMAIN c.buf |->
                 IF c.buf[i] = None THEN 0 ELSE Size(ParamsOf(c)[i], c.n)])

Frame(kind, fn, ptr, n, inner_nul) ==
  [kind |-> kind, fn |-> fn, at |-> "in", next |-> 1, n |-> n, inner_nul |-> inner_nul,
   ptr |-> ptr, mem |-> [i \in DOMAIN ptr |-> "caller"], buf |-> [i \in DOMAIN ptr |-> None],
   wrote |-> FALSE, ret |-> "caller", status |-> "SUCCESS"]

Reply(c) == [kind |-> c.kind, fn |-> c.fn, n |-> c.n, ptr |-> c.ptr, mem |-> c.mem,
             wrote |-> c.wrote, ret |-> c.ret, status |-> c.status]

(* The callee has run and has written its outputs or left them. *)
Written(c, wrote) ==
  [i \in DOMAIN c.buf |->
     IF c.buf[i] # None /\ CopiesOut(ParamsOf(c)[i]) /\ wrote THEN "body" ELSE c.buf[i]]

Top(t) == stack[t][Len(stack[t])]
Pop(s) == SubSeq(s, 1, Len(s) - 1)
SetTop(t, c) == stack' = [stack EXCEPT ![t][Len(stack[t])] = c]

Push(t, c) ==
  /\ stack' = [stack EXCEPT ![t] = Append(@, c)]
  /\ reply' = [reply EXCEPT ![t] = None]

Answer(t, c, status) == reply' = [reply EXCEPT ![t] = [Reply(c) EXCEPT !.status = status]]

Return(t, c) ==
  /\ stack' = [stack EXCEPT ![t] = Pop(@)]
  /\ Answer(t, c, c.status)

Outside(t) == stack[t] # <<>> => Top(t).kind = "ocall" /\ Top(t).at = "outside"
InEcall(t) == stack[t] # <<>> /\ Top(t).kind = "ecall"

-----------------------------------------------------------------------------
(* Ecalls: the application calls the enclave.                              *)

HasString(params) == \E i \in DOMAIN params : params[i].string
HasLength(params) == \E i \in DOMAIN params : params[i].sized

Pointers(params) == [DOMAIN params -> Where]
LengthsOf(params) == IF HasLength(params) THEN Lengths ELSE {0}
InnerNuls(params) == IF HasString(params) THEN BOOLEAN ELSE {FALSE}

(* sgx_trts admits a call by is_priv, or during an ocall by its row of the *)
(* entry table.                                                            *)
Admitted(t, fn) ==
  IF stack[t] = <<>> THEN fn \notin is_priv ELSE fn \in g_dyn_entry_table(Top(t).fn)

CHECK_REF_POINTER(fn, ms) ==
  IF g_ecall_table[fn].takes_ms THEN ms = "outside" ELSE ms = "null"

CHECK_UNIQUE_POINTER(c) ==
  \A i \in DOMAIN c.ptr : ParamsOf(c)[i].dir # "user_check" => c.ptr[i] # "inside"

(* Mutant: the product is not compared with SIZE_MAX. *)
CountFits_Unchecked(c) == TRUE

CountFits(c) ==
  \A i \in DOMAIN c.ptr : ParamsOf(c)[i].checked => c.n <= SIZE_MAX \div ParamsOf(c)[i].unit

Ecall(t, fn, ms, ptr, n, nul) ==
  /\ Outside(t)
  /\ Len(stack[t]) < app.depth
  /\ LET c == Frame("ecall", fn, ptr, n, nul)
     IN  IF ~Admitted(t, fn)
         THEN Answer(t, c, "ECALL_NOT_ALLOWED") /\ UNCHANGED stack
         ELSE IF CHECK_REF_POINTER(fn, ms) /\ CountFits(c) /\ CHECK_UNIQUE_POINTER(c)
              THEN Push(t, c)
              ELSE Answer(t, c, "INVALID_PARAMETER") /\ UNCHANGED stack
  /\ UNCHANGED <<heap, inits, ocalloc>>

(***************************************************************************)
(* One parameter is copied to the enclave.  An error ends the call at once *)
(* ("goto err"), with what has been allocated so far.                      *)
(***************************************************************************)
Copying(t) == InEcall(t) /\ Top(t).at = "in" /\ Top(t).next <= Len(Top(t).ptr)

SkipPointer(t) ==
  /\ Copying(t) /\ ~Copied(Top(t), Top(t).next)
  /\ SetTop(t, [Top(t) EXCEPT !.next = @ + 1])
  /\ UNCHANGED <<heap, inits, ocalloc, reply>>

Fits(bytes) == heap + bytes <= HEAPMAXSIZE        \* malloc does not fail

CopyIn(t) ==
  LET c == Top(t)
      p == ParamsOf(c)[c.next]
  IN  /\ Copying(t) /\ Copied(c, c.next)
      /\ Fits(Size(p, c.n))
      /\ heap' = heap + Size(p, c.n)
      /\ LET filled == [c EXCEPT !.buf[c.next] = IF CopiesIn(p) THEN "caller" ELSE "zero"]
         IN  SetTop(t, IF p.string /\ c.inner_nul
                       THEN [filled EXCEPT !.at = "err", !.status = "UNEXPECTED"]
                       ELSE [filled EXCEPT !.next = @ + 1])
      /\ UNCHANGED <<inits, ocalloc, reply>>

OutOfMemory(t) ==
  LET c == Top(t)
  IN  /\ Copying(t) /\ Copied(c, c.next)
      /\ ~Fits(Size(ParamsOf(c)[c.next], c.n))
      /\ SetTop(t, [c EXCEPT !.at = "err", !.status = "OUT_OF_MEMORY"])
      /\ UNCHANGED <<heap, inits, ocalloc, reply>>

(***************************************************************************)
(* The enclave's function runs: it may leave its output buffers as they    *)
(* are (a key that is not found), and ecall_handler_init allocates two     *)
(* keys that nothing ever frees.  With no heap left for them it writes     *)
(* through NULL, and the thread goes no further.                           *)
(***************************************************************************)
InBody(t) == InEcall(t) /\ Top(t).at = "in" /\ Top(t).next > Len(Top(t).ptr)

Body(t, wrote) ==
  LET c == Top(t)
  IN  /\ InBody(t)
      /\ SetTop(t, [c EXCEPT
           !.at = "out",
           !.ret = IF Returns(c) THEN "body" ELSE @,
           !.wrote = wrote, !.buf = Written(c, wrote)])
      /\ IF c.fn = "ecall_handler_init"
         THEN /\ inits < MaxInits /\ Fits(2 * KEYBYTES)
              /\ inits' = inits + 1 /\ heap' = heap + 2 * KEYBYTES
         ELSE UNCHANGED <<inits, heap>>
      /\ UNCHANGED <<ocalloc, reply>>

(* Mutant: the copy follows the label err. *)
Results_AfterErr(c) ==
  [i \in DOMAIN c.mem |-> IF c.buf[i] # None /\ CopiesOut(ParamsOf(c)[i]) THEN c.buf[i] ELSE c.mem[i]]

Results(c) ==
  [i \in DOMAIN c.mem |->
     IF c.at = "out" /\ c.buf[i] # None /\ CopiesOut(ParamsOf(c)[i]) THEN c.buf[i] ELSE c.mem[i]]

(* Mutant: an error path frees the buffers on its own, before err does. *)
Freed_Twice(c) == IF c.at = "err" THEN 2 * Bytes(c) ELSE Bytes(c)

Freed(c) == Bytes(c)

(* Results are copied out, unless there was an error, and the buffers freed. *)
LeaveEcall(t) ==
  LET c == Top(t)
  IN  /\ InEcall(t) /\ c.at \in {"out", "err"}
      /\ heap' = heap - Freed(c)
      /\ Return(t, [c EXCEPT !.mem = Results(c)])
      /\ UNCHANGED <<inits, ocalloc>>

-----------------------------------------------------------------------------
(* Ocalls: the enclave's function calls the application.                   *)

(***************************************************************************)
(* The ocalls of the store's functions.  What the functions of the SDK's   *)
(* samples call is not in the repository; they may make any.               *)
(***************************************************************************)
OcallsOf(fn) ==
  CASE fn \in {"handle_just", "aes_encrypt", "aes_decrypt"} -> {}
    [] fn = "ecall_handler_init" -> {"ocall_write_to_file"}
    [] fn = "handle_read_val" -> {"ocall_read_to_buffer", "ocall_write_to_file"}
    [] fn \in {"handle_write_val", "ecall_test_handle"} ->
         {"ocall_read_to_buffer", "ocall_write_to_file", "ocall_print_string"}
    [] OTHER -> DOMAIN ocall_table

CHECK_ENCLAVE_POINTER(c) ==
  \A i \in DOMAIN c.ptr : ParamsOf(c)[i].dir # "user_check" => c.ptr[i] # "outside"

(* The marshalling structure and the copies, on the untrusted stack. *)
OcallBytes(c) ==
  ocall_table[c.fn].ms +
    SumFunction([i \in DOMAIN c.ptr |->
                   IF Copied(c, i) THEN Size(ParamsOf(c)[i], c.n) ELSE 0])

Enter(c) ==
  [c EXCEPT !.at = "outside",
            !.buf = [i \in DOMAIN c.ptr |->
                       IF ~Copied(c, i) THEN None
                       ELSE IF CopiesIn(ParamsOf(c)[i]) THEN "caller" ELSE "zero"]]

Ocall(t, fn, ptr, n) ==
  LET c == Frame("ocall", fn, ptr, n, FALSE)
      valid == CHECK_ENCLAVE_POINTER(c) /\ OcallBytes(c) <= SIZE_MAX
      room == ocalloc[t] + OcallBytes(c) <= UNTRUSTEDSTACK
  IN  /\ InBody(t)
      /\ fn \in OcallsOf(Top(t).fn)
      /\ Len(stack[t]) < app.depth
      /\ \/ /\ ~valid
            /\ Answer(t, c, "INVALID_PARAMETER") /\ UNCHANGED <<stack, ocalloc>>
         \/ /\ valid /\ ~room
            /\ Answer(t, c, "UNEXPECTED") /\ UNCHANGED <<stack, ocalloc>>
         \/ /\ valid /\ room
            /\ Push(t, Enter(c))
            /\ ocalloc' = [ocalloc EXCEPT ![t] = @ + OcallBytes(c)]
      /\ UNCHANGED <<heap, inits>>

(* The application's function returns, having written its results or not,  *)
(* or the call fails.                                                      *)
OcallBody(t, wrote, status) ==
  LET c == Top(t)
  IN  /\ stack[t] # <<>> /\ c.kind = "ocall" /\ c.at = "outside"
      /\ SetTop(t, [c EXCEPT
           !.at = IF status = "SUCCESS" THEN "out" ELSE "err",
           !.status = status,
           !.wrote = wrote, !.buf = Written(c, wrote)])
      /\ UNCHANGED <<heap, inits, ocalloc, reply>>

(* Mutant: sgx_ocfree is called where the results are copied. *)
OcallFreed_OnSuccess(c) == IF c.status = "SUCCESS" THEN OcallBytes(c) ELSE 0

OcallFreed(c) == OcallBytes(c)                                        \* sgx_ocfree

(* The value the application's function returned, if the call succeeded. *)
ReturnValue(c) == IF c.at = "out" /\ Returns(c) THEN "body" ELSE c.ret

LeaveOcall(t) ==
  LET c == Top(t)
  IN  /\ stack[t] # <<>> /\ c.kind = "ocall" /\ c.at \in {"out", "err"}
      /\ Return(t, [c EXCEPT !.mem = Results(c), !.ret = ReturnValue(c)])
      /\ ocalloc' = [ocalloc EXCEPT ![t] = @ - OcallFreed(c)]
      /\ UNCHANGED <<heap, inits>>

-----------------------------------------------------------------------------
Init ==
  /\ app \in Applications
  /\ stack = [t \in Threads |-> <<>>]
  /\ heap = 0
  /\ inits = 0
  /\ ocalloc = [t \in Threads |-> 0]
  /\ reply = [t \in Threads |-> None]

Step(t) ==
  \/ \E fn \in app.ecalls, ms \in Where :
       LET params == g_ecall_table[fn].params
       IN  \E ptr \in Pointers(params), n \in LengthsOf(params), nul \in InnerNuls(params) :
             Ecall(t, fn, ms, ptr, n, nul)
  \/ SkipPointer(t) \/ CopyIn(t) \/ OutOfMemory(t)
  \/ \E wrote \in BOOLEAN : Body(t, wrote)
  \/ LeaveEcall(t)
  \/ \E fn \in app.ocalls :
       LET params == ocall_table[fn].params
       IN  \E ptr \in Pointers(params), n \in LengthsOf(params) : Ocall(t, fn, ptr, n)
  \/ \E wrote \in BOOLEAN, status \in {"SUCCESS", "UNEXPECTED"} : OcallBody(t, wrote, status)
  \/ LeaveOcall(t)

Next == UNCHANGED app /\ \E t \in app.threads : Step(t)

Spec == Init /\ [][Next]_vars

-----------------------------------------------------------------------------
(***************************************************************************)
(*                              Properties                                 *)
(***************************************************************************)

Statuses == {"SUCCESS", "INVALID_PARAMETER", "OUT_OF_MEMORY", "UNEXPECTED", "ECALL_NOT_ALLOWED"}

FrameOK(c) ==
  /\ c.kind \in {"ecall", "ocall"}
  /\ c.fn \in (IF c.kind = "ecall" THEN app.ecalls ELSE app.ocalls)
  /\ c.at \in {"in", "outside", "out", "err"}
  /\ DOMAIN c.ptr = DOMAIN ParamsOf(c)
  /\ c.mem \in [DOMAIN c.ptr -> Contents]
  /\ c.buf \in [DOMAIN c.ptr -> Contents \cup {None}]
  /\ c.status \in Statuses

(* The types of the calls in progress, of the counters and of the replies. *)
TypeOK ==
  /\ app \in Applications
  /\ \A t \in Threads : \A i \in 1 .. Len(stack[t]) : FrameOK(stack[t][i])
  /\ heap \in 0 .. HEAPMAXSIZE
  /\ inits \in 0 .. MaxInits
  /\ ocalloc \in [Threads -> 0 .. UNTRUSTEDSTACK]
  /\ \A t \in Threads : reply[t] # None => reply[t].status \in Statuses

Calls(kind) == {f \in Threads \X (1 .. app.depth) :
                  f[2] <= Len(stack[f[1]]) /\ stack[f[1]][f[2]].kind = kind}

(* Every way out of a bridge, each "goto err" too, frees exactly the       *)
(* buffers that were allocated for the call, and every ocall gives its     *)
(* part of the untrusted stack back: what is allocated belongs to calls in *)
(* progress, but for the keys of ecall_handler_init.                       *)
NothingLeaks ==
  /\ heap = inits * 2 * KEYBYTES
              + SumFunction([f \in Calls("ecall") |-> Bytes(stack[f[1]][f[2]])])
  /\ \A t \in Threads :
       ocalloc[t] = SumFunction([f \in {g \in Calls("ocall") : g[1] = t} |->
                                   OcallBytes(stack[t][f[2]])])

(* A call that reports success has handed over every output, as the callee *)
(* left it (its own results, or what was copied in, or zeros, never an old *)
(* block of the heap), and the value the callee returned; a call that      *)
(* reports anything else has left its caller's memory as it was.           *)
Matches(r) ==
  LET Filled(p) == IF r.wrote THEN "body" ELSE IF CopiesIn(p) THEN "caller" ELSE "zero"
      ok == r.status = "SUCCESS"
  IN  /\ r.ret = IF ok /\ Returns(r) THEN "body" ELSE "caller"
      /\ \A i \in DOMAIN r.mem :
           r.mem[i] = IF ok /\ CopiesOut(ParamsOf(r)[i]) /\ Copied(r, i)
                      THEN Filled(ParamsOf(r)[i]) ELSE "caller"

(* Matches, of the last reply of every thread: the error exits of the      *)
(* bridges and proxies, and their copies back.                             *)
ReplyMatchesStatus == \A t \in Threads : reply[t] # None => Matches(reply[t])

StoreEcalls == {"ecall_handler_init", "ecall_test_handle", "handle_write_val", "handle_just",
                "handle_read_val"}

(* The store's globals have no lock, and their functions wait in ocalls:   *)
(* g_dyn_entry_table keeps a thread that is in the store from entering it  *)
(* again from such an ocall.                                               *)
StoreNotReentered ==
  \A t \in Threads : \A i, j \in 1 .. Len(stack[t]) :
    (stack[t][i].fn \in StoreEcalls /\ stack[t][j].fn \in StoreEcalls) => i = j

(* The callee never sees a count that does not fit the copy it was given:  *)
(* the product of ecall_pointer_count is compared with SIZE_MAX first.     *)
(* One product is not: the waiters of set_multiple, too many of which      *)
(* travel in a copy that is too short.                                     *)
TooManyWaiters(c) ==
  c.fn = "sgx_thread_set_multiple_untrusted_events_ocall" /\ c.n > SIZE_MAX \div 8

BufferHoldsCount ==
  \A f \in Calls("ecall") \cup Calls("ocall") :
    LET c == stack[f[1]][f[2]]
    IN  \A i \in DOMAIN c.buf :
          c.buf[i] # None /\ ParamsOf(c)[i].sized /\ ~TooManyWaiters(c)
            => Size(ParamsOf(c)[i], c.n) = ParamsOf(c)[i].unit * c.n

=============================================================================
