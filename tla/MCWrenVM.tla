------------------------------ MODULE MCWrenVM ------------------------------
(* The instance of WrenVM that TLC checks.                                 *)
EXTENDS WrenVM

P == INSTANCE WrenPrograms
Core == <<"Object", "Fn", "List", "System", "Host">>
Lower == {"x","y","z","w","v","u","f","g","s","r","a","b","c","d","h","n","fs","make","m","k","o"}
Under == {"__n"}
MCPrograms == P!WhileLoops \o P!ForLoops \o P!NestedLoops \o P!SharedVariables \o <<P!Counter, P!Iterations, P!Deep>>
           \o P!Expressions \o P!Scopes \o P!Inheritance \o <<P!LocalClasses>> \o P!Foreigners
           \o P!Failures \o P!BadClasses \o P!Imports \o P!Invalids \o P!Valids
MCRebound == <<P!Rebound>>
One == {1}
All == DOMAIN MCPrograms
=============================================================================
