---------------------------- MODULE MCEdgeCalls -----------------------------
(***************************************************************************)
(* The applications that TLC tries: one that calls every function, one     *)
(* whose calls nest, and one whose threads call side by side in the heap.  *)
(***************************************************************************)
EXTENDS EdgeCalls

CONSTANTS t1, t2

App(threads, ecalls, ocalls, depth) ==
  [threads |-> threads, ecalls |-> ecalls, ocalls |-> ocalls, depth |-> depth]

NestingEcalls == {"ecall_handler_init", "handle_write_val", "handle_read_val",
                  "ecall_function_public", "ecall_function_private"}
HeavyEcalls == {"aes_encrypt", "handle_read_val", "ecall_handler_init"}

MCApplications ==
  {App({t1}, DOMAIN g_ecall_table, {}, 1),
   App({t1}, NestingEcalls, DOMAIN ocall_table, 4),
   App({t1, t2}, HeavyEcalls, {}, 1)}
=============================================================================
