----------------------------- MODULE MCSyscall ------------------------------
(* Three files and two descriptors for them: the table gets full. *)
EXTENDS Syscall

MCPayloads == {<<>>, <<1>>, <<1, 2>>}
MCPrograms == {<<1, 2>>}
MCUninit == {"", "junk"}
=============================================================================
