------------------------------- MODULE MCPlt -------------------------------
(* Layouts for TLC: pages of 64 bytes, so that on both builds two stubs can   *)
(* fill a page, leave room in it, or run over its end.                        *)
EXTENDS Plt

near == <<4660, 0, 0, 0>>              \* 0x1234
high == <<65535, 40961, 0, 0>>         \* 0xa001ffff
far  == <<8, 40961, 127, 1>>           \* a 64 bit address

odd  == <<40, 18, 0, 0>>               \* where a branch that is read again leads

MCSection  == {"libc", "main"}
MCImplicit == {"libc"}
MCStray    == {odd}

(* On arm64 the second stub of main ends 4 bytes behind its page, on arm that *)
(* of libc 8 bytes. Both begin with a branch, which such a stub hits.         *)
At(p, t) == [place |-> p, target |-> t]

MCSize     == [s \in MCSection |-> IF s = "main" THEN 20 ELSE 40]
MCBranches == [s \in MCSection |->
                  IF s = "main" THEN <<At(0, far), At(16, high)>> ELSE <<At(0, near), At(36, far)>>]

(* The stub of libc that hits main's first branch also hits its next word.    *)
MCOthers == [s \in MCSection |-> IF s = "main" THEN {4} ELSE {}]
=============================================================================
