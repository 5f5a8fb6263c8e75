---------------------------- MODULE MCDiskMounts ----------------------------
(* Two processes, the first with two worker threads, and one image.         *)
EXTENDS DiskMounts

MCProcOf == [a1 |-> "p", a2 |-> "p", b |-> "q"]
MCShort == [e |-> "e"]
Setup(mode, ro, asRoot, format) ==
    [mode |-> mode, hinted |-> IF mode = "hint" THEN Images ELSE {}, ro |-> ro,
     asRoot |-> asRoot, format |-> [e \in Images |-> format]]
MCSetups ==
    {Setup("none", TRUE, FALSE, f) : f \in Formats}
       \cup {Setup("hint", ro, FALSE, "raw") : ro \in BOOLEAN}
       \cup {Setup("env", TRUE, FALSE, "raw")}
=============================================================================
