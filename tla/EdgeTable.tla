----------------------------- MODULE EdgeTable ------------------------------
(***************************************************************************)
(* What each bridge and each proxy of Enclave/Enclave_t.c marshals.        *)
(*                                                                         *)
(* sgx_edger8r generates one function per ecall (the bridges) and one per  *)
(* ocall (the proxies).  They differ in their pointer parameters only: the *)
(* direction in which the memory behind each is copied and its size.  The  *)
(* module names them as the source does; EdgeCalls says what they do.      *)
(* Parameters passed by value need no marshalling and are left out.        *)
(***************************************************************************)
EXTENDS Integers, Sequences

(***************************************************************************)
(* A pointer parameter.  Its memory has unit bytes, or unit * n if sized:  *)
(* n is the length or count that is passed beside it.  A checked product   *)
(* is compared with SIZE_MAX first.  A string must end at its length.      *)
(***************************************************************************)
Pointer(dir, bytes) ==
  [dir |-> dir, unit |-> bytes, sized |-> FALSE, checked |-> FALSE, string |-> FALSE]

In(bytes) == Pointer("in", bytes)
Out(bytes) == Pointer("out", bytes)
InOut(bytes) == Pointer("inout", bytes)
UserCheck == Pointer("user_check", 0)       \* passed on as it is

Sized(p) == [p EXCEPT !.sized = TRUE]
Checked(p) == [p EXCEPT !.checked = TRUE]
String(p) == [Sized(p) EXCEPT !.string = TRUE]

CopiesIn(p) == p.dir \in {"in", "inout"}
CopiesOut(p) == p.dir \in {"out", "inout"}

(***************************************************************************)
(* A bridge: its parameters, whether it takes a marshalling structure at   *)
(* all, and whether it stores a return value there.                        *)
(***************************************************************************)
Bridge(params) == [params |-> params, takes_ms |-> TRUE, returns |-> FALSE]
Returning(row) == [row EXCEPT !.returns = TRUE]
NoArguments == [params |-> <<>>, takes_ms |-> FALSE, returns |-> FALSE]

INTBYTES == 4
BLOCKBYTES == 32768

sgx_ecall_type_char == Bridge(<<>>)
sgx_ecall_type_int == Bridge(<<>>)
sgx_ecall_type_float == Bridge(<<>>)
sgx_ecall_type_double == Bridge(<<>>)
sgx_ecall_type_size_t == Bridge(<<>>)
sgx_ecall_type_wchar_t == Bridge(<<>>)
sgx_ecall_type_struct == Bridge(<<>>)
sgx_ecall_type_enum_union == Bridge(<<UserCheck>>)
sgx_ecall_pointer_user_check == Returning(Bridge(<<UserCheck>>))
sgx_ecall_pointer_in == Bridge(<<In(INTBYTES)>>)
sgx_ecall_pointer_out == Bridge(<<Out(INTBYTES)>>)
sgx_ecall_pointer_in_out == Bridge(<<InOut(INTBYTES)>>)
sgx_ecall_pointer_string == Bridge(<<String(InOut(1))>>)
sgx_ecall_pointer_string_const == Bridge(<<String(In(1))>>)
sgx_ecall_pointer_size == Bridge(<<Sized(InOut(1))>>)
sgx_ecall_pointer_count == Bridge(<<Checked(Sized(InOut(INTBYTES)))>>)
sgx_ecall_pointer_isptr_readonly == Bridge(<<Sized(In(1))>>)
sgx_ocall_pointer_attr == NoArguments
sgx_ecall_array_user_check == Bridge(<<UserCheck>>)
sgx_ecall_array_in == Bridge(<<In(4 * INTBYTES)>>)
sgx_ecall_array_out == Bridge(<<Out(4 * INTBYTES)>>)
sgx_ecall_array_in_out == Bridge(<<InOut(4 * INTBYTES)>>)
sgx_ecall_array_isary == Bridge(<<UserCheck>>)
sgx_ecall_function_public == NoArguments
sgx_ecall_function_private == Returning(Bridge(<<>>))
sgx_ecall_malloc_free == NoArguments
sgx_ecall_sgx_cpuid == Bridge(<<Out(4 * INTBYTES)>>)
sgx_ecall_exception == NoArguments
sgx_ecall_map == NoArguments
sgx_ecall_increase_counter == Returning(Bridge(<<>>))
sgx_ecall_producer == NoArguments
sgx_ecall_consumer == NoArguments
sgx_aes_encrypt == Returning(Bridge(<<In(BLOCKBYTES), In(BLOCKBYTES), Out(BLOCKBYTES)>>))
sgx_aes_decrypt == Returning(Bridge(<<In(BLOCKBYTES), In(BLOCKBYTES), Out(BLOCKBYTES)>>))
sgx_ecall_handler_init == NoArguments
sgx_ecall_test_handle == NoArguments
sgx_handle_write_val == Bridge(<<In(21), In(101)>>)
sgx_handle_just == Bridge(<<In(21)>>)
sgx_handle_read_val == Bridge(<<In(21), Out(BLOCKBYTES), Out(INTBYTES)>>)

(***************************************************************************)
(* g_ecall_table: the bridges by name, and the private ones among them.    *)
(***************************************************************************)
g_ecall_table ==
  [ecall_type_char |-> sgx_ecall_type_char,
   ecall_type_int |-> sgx_ecall_type_int,
   ecall_type_float |-> sgx_ecall_type_float,
   ecall_type_double |-> sgx_ecall_type_double,
   ecall_type_size_t |-> sgx_ecall_type_size_t,
   ecall_type_wchar_t |-> sgx_ecall_type_wchar_t,
   ecall_type_struct |-> sgx_ecall_type_struct,
   ecall_type_enum_union |-> sgx_ecall_type_enum_union,
   ecall_pointer_user_check |-> sgx_ecall_pointer_user_check,
   ecall_pointer_in |-> sgx_ecall_pointer_in,
   ecall_pointer_out |-> sgx_ecall_pointer_out,
   ecall_pointer_in_out |-> sgx_ecall_pointer_in_out,
   ecall_pointer_string |-> sgx_ecall_pointer_string,
   ecall_pointer_string_const |-> sgx_ecall_pointer_string_const,
   ecall_pointer_size |-> sgx_ecall_pointer_size,
   ecall_pointer_count |-> sgx_ecall_pointer_count,
   ecall_pointer_isptr_readonly |-> sgx_ecall_pointer_isptr_readonly,
   ocall_pointer_attr |-> sgx_ocall_pointer_attr,
   ecall_array_user_check |-> sgx_ecall_array_user_check,
   ecall_array_in |-> sgx_ecall_array_in,
   ecall_array_out |-> sgx_ecall_array_out,
   ecall_array_in_out |-> sgx_ecall_array_in_out,
   ecall_array_isary |-> sgx_ecall_array_isary,
   ecall_function_public |-> sgx_ecall_function_public,
   ecall_function_private |-> sgx_ecall_function_private,
   ecall_malloc_free |-> sgx_ecall_malloc_free,
   ecall_sgx_cpuid |-> sgx_ecall_sgx_cpuid,
   ecall_exception |-> sgx_ecall_exception,
   ecall_map |-> sgx_ecall_map,
   ecall_increase_counter |-> sgx_ecall_increase_counter,
   ecall_producer |-> sgx_ecall_producer,
   ecall_consumer |-> sgx_ecall_consumer,
   aes_encrypt |-> sgx_aes_encrypt,
   aes_decrypt |-> sgx_aes_decrypt,
   ecall_handler_init |-> sgx_ecall_handler_init,
   ecall_test_handle |-> sgx_ecall_test_handle,
   handle_write_val |-> sgx_handle_write_val,
   handle_just |-> sgx_handle_just,
   handle_read_val |-> sgx_handle_read_val]

is_priv == {"ecall_function_private"}

(***************************************************************************)
(* A proxy: its parameters, the bytes of its marshalling structure on the  *)
(* untrusted stack (ocall_function_allow passes none) and whether it hands *)
(* a value of the application's function to its caller.                    *)
(***************************************************************************)
Proxy(params, ms) == [params |-> params, ms |-> ms, returns |-> FALSE]

ocall_print_string == Proxy(<<Sized(In(1))>>, 8)
u_sgxssl_ftime == Proxy(<<Sized(Out(1))>>, 16)
sgx_oc_cpuidex == Proxy(<<Out(4 * INTBYTES)>>, 16)
sgx_thread_wait_untrusted_event_ocall == Returning(Proxy(<<UserCheck>>, 16))
sgx_thread_set_untrusted_event_ocall == Returning(Proxy(<<UserCheck>>, 16))
sgx_thread_setwait_untrusted_events_ocall == Returning(Proxy(<<UserCheck, UserCheck>>, 24))
sgx_thread_set_multiple_untrusted_events_ocall == Returning(Proxy(<<Sized(In(8))>>, 24))
ocall_pointer_user_check == Proxy(<<UserCheck>>, 8)
ocall_pointer_in == Proxy(<<In(INTBYTES)>>, 8)
ocall_pointer_out == Proxy(<<Out(INTBYTES)>>, 8)
ocall_pointer_in_out == Proxy(<<InOut(INTBYTES)>>, 8)
ocall_function_allow == Proxy(<<>>, 0)
ocall_read_to_buffer == Proxy(<<In(20), Out(BLOCKBYTES)>>, 24)
ocall_write_to_file == Proxy(<<In(20), In(BLOCKBYTES)>>, 24)

ocall_table ==
  [ocall_print_string |-> ocall_print_string,
   u_sgxssl_ftime |-> u_sgxssl_ftime,
   sgx_oc_cpuidex |-> sgx_oc_cpuidex,
   sgx_thread_wait_untrusted_event_ocall |-> sgx_thread_wait_untrusted_event_ocall,
   sgx_thread_set_untrusted_event_ocall |-> sgx_thread_set_untrusted_event_ocall,
   sgx_thread_setwait_untrusted_events_ocall |-> sgx_thread_setwait_untrusted_events_ocall,
   sgx_thread_set_multiple_untrusted_events_ocall |-> sgx_thread_set_multiple_untrusted_events_ocall,
   ocall_pointer_user_check |-> ocall_pointer_user_check,
   ocall_pointer_in |-> ocall_pointer_in,
   ocall_pointer_out |-> ocall_pointer_out,
   ocall_pointer_in_out |-> ocall_pointer_in_out,
   ocall_function_allow |-> ocall_function_allow,
   ocall_read_to_buffer |-> ocall_read_to_buffer,
   ocall_write_to_file |-> ocall_write_to_file]

(* Mutant: a file ocall admits every ecall, as an allow(...) clause would. *)
g_dyn_entry_table_FileOcalls(ocall) ==
  IF ocall = "ocall_read_to_buffer" THEN DOMAIN g_ecall_table ELSE {}

(* g_dyn_entry_table: the ecalls that may be made during an ocall. *)
g_dyn_entry_table(ocall) ==
  IF ocall = "ocall_function_allow" THEN {"ecall_function_private"} ELSE {}

=============================================================================
