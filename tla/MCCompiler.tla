---------------------------- MODULE MCCompiler -------------------------------
(* Two provinces and three directories: "." (named without '/'), "/" and   *)
(* "d".  Beijing has everything that a combination needs, in "d", and some *)
(* of it in "." again; of tianjin there is one input.                      *)
EXTENDS Compiler

MCProvinces == {"beijing", "tianjin"}
MCDirs == {"d"}
None == "none"

P(d, k, e)  == [dir |-> d, kind |-> k, prov |-> "beijing", ext |-> e]
T(k, e)     == [dir |-> "d", kind |-> k, prov |-> "tianjin", ext |-> e]
HW(d, e)    == [dir |-> d, kind |-> "HW_Junction", prov |-> None, ext |-> e]

MCInputs == {P("d", k, "db") : k \in Basic} \cup {P(".", "C", "db"), T("CR", "db")}

(* A file that is none of the program's business.                          *)
Note == [dir |-> ".", kind |-> "other", prov |-> None, ext |-> "other"]

MCPaths ==
  MCInputs \cup
  {P("d", "CR", "mid"), P("d", "CR", "bin"), HW("/", "mid"), HW(".", "db"),
   P("d", "C_CR", "db"), P(".", "C_CR", "db"), P("d", "C_CR_Toll", "db"),
   P("d", "C_CR_Toll", "bin"), Note}

D(k) == P("d", k, "db")

MCArgLists ==
  { <<P("d", "CR", "mid")>>, <<HW("/", "mid")>>,
    <<P("d", "CR", "mid"), D("C")>>, <<D("C")>>, <<D("CR")>>, <<D("C_CR_Toll")>>,
    <<P("d", "CR", "bin"), D("CR")>>,
    <<D("C"), D("CR")>>, <<D("CR"), Note, D("C")>>, <<D("C"), T("CR", "db")>>,
    <<P(".", "C", "db"), D("CR")>>,
    <<D("C"), D("CR"), D("Toll_ETA"), D("Toll_Pattern")>>,
    <<D("Toll_Pattern"), D("CR"), D("C"), D("Toll_ETA")>>,
    <<D("C"), T("CR", "db"), D("Toll_ETA"), D("Toll_Pattern")>>,
    <<D("C"), D("CR"), D("CR"), D("Toll_Pattern")>> }

Made(p) == Db([t \in {p.kind} |-> Text(p, 1)])

(* All inputs, without the ones in m.                                      *)
World(m) ==
  [p \in MCPaths |->
     IF p \in m THEN Absent
     ELSE IF p \in MCInputs THEN Made(p)
     ELSE IF p = P("d", "CR", "mid") THEN Mid(1) ELSE Absent]

MCWorlds == {World({}), World({D("CR")}), World({D("Toll_ETA"), D("C")})}
=============================================================================
