-------------------------- MODULE MCKeyDerivation --------------------------
\* A small instance of KeyDerivation for TLC.
EXTENDS KeyDerivation

CONSTANTS b1, b2, b3, k1, k2, SaltSizes, KeySizes, Iterations, Ends

MCByte == {b1, b2, b3, k1, k2}
MCKeys == {[i \in 1..n |-> IF i = n THEN k2 ELSE k1] : n \in KeySizes}
Salts == {[i \in 1..n |-> <<b1, b2, b3>>[((i - 1) % 3) + 1]] : n \in SaltSizes}

Requests == [fn : Functions, pass : MCKeys, salt : Salts, c : Iterations,
             off : {0, 1, DL - 1, DL, DL + 1}, end : Ends]

MCCalls ==
  {a \in Requests : /\ a.off <= a.end
                    /\ a.fn # "range" => a.off = 0
                    /\ a.fn \in {"one", "expand"} => a.c = 1
                    /\ a.fn = "expand" => a.end <= DL}

\* PBKDF2(1) agrees with PBKDF2 only where the hash has the machine's byte order.
MCHosts == [f \in Functions |-> IF f = "one" THEN {FALSE} ELSE BOOLEAN]
=============================================================================
