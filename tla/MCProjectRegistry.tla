-------------------------- MODULE MCProjectRegistry ---------------------------
\* The workspace w holds the directory sub; o is outside it and holds p.
EXTENDS ProjectRegistry

CONSTANTS w, sub, o, p, a, b, c

MCAbove == [d \in Dirs |->
              CASE d = sub -> {w, sub} [] d = p -> {o, p} [] OTHER -> {d}]
MCDirOf == [f \in Documents |-> CASE f = a -> sub [] f = b -> o [] OTHER -> p]
=============================================================================
