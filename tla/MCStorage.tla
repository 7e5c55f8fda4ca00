------------------------------ MODULE MCStorage ------------------------------
(***************************************************************************)
(* What is kept in files and releases: small instances of four components *)
(* that share no state.  Each behaviour of the run is a behaviour of the   *)
(* one its scene names, so their states add up and do not multiply.        *)
(***************************************************************************)
EXTENDS AuditTrail, CredentialFile, DeviceSpecs, ReleasePublish, TLC

VARIABLE scene

(* Published specifications of one model: a property with a range and a    *)
(* step, one with choices, one of another type that is only read, one that *)
(* cannot be read, and actions with two inputs, with one of these, and     *)
(* with an input given twice.  Later the range is narrower and the inputs  *)
(* change places.                                                          *)
NoRange == [has |-> {}, min |-> 0, max |-> 0, step |-> 0]
Property(name, format, access) ==
  [name |-> name, format |-> format, access |-> access, sane |-> TRUE,
   ranged |-> FALSE, range |-> NoRange, listed |-> FALSE, choices |-> {}]
Level(top) == [Property("level", "uint8", {"read", "write"}) EXCEPT
                 !.ranged = TRUE, !.range = [has |-> {"min", "max", "step"}, min |-> 2, max |-> top, step |-> 4]]
Mode == [Property("mode", "float", {"write"}) EXCEPT
           !.listed = TRUE, !.choices = {Value("int", 2), Value("int", 4)}]
Heat == [Property("heat", "double", {"read"}) EXCEPT !.ranged = TRUE, !.range = [NoRange EXCEPT !.has = {"min"}]]
Odd == [Property("odd", "int32", {"read", "write"}) EXCEPT !.sane = FALSE]
Switch == Property("on", "bool", {"write"})

SpecFirst == [props |-> <<Level(10), Mode, Heat, Odd, Switch>>, acts |-> <<<<1, 2>>, <<4>>, <<5, 5>>, <<>>>>]
SpecLater == [props |-> <<Level(6), Mode, Heat, Odd, Switch>>, acts |-> <<<<2, 1>>, <<4>>, <<5>>, <<5>>>>]
TwoSpecs == <<SpecFirst, SpecLater>>

SomeSettings ==
  {<<1, Value("int", 10)>>, <<1, Value("int", 8)>>, <<1, Value("float", 6)>>, <<2, Value("float", 4)>>,
   <<2, Value("float", 3)>>, <<3, Value("float", 1)>>, <<4, Value("int", 2)>>, <<5, Value("bool", 2)>>}
SomeCallings ==
  {<<1, <<"id", 1>> :> Value("int", 6) @@ <<"name", "mode">> :> Value("int", 4)>>,
   <<1, <<"id", 1>> :> Value("int", 6) @@ <<"name", "level">> :> Value("int", 6)>>,
   <<1, <<>>>>, <<3, <<"id", 5>> :> Value("bool", 2)>>, <<4, <<>>>>, <<4, <<"id", 5>> :> Value("bool", 0)>>}

StInit ==
  /\ scene \in {"audit trail", "credential file", "device specs", "release publish"}
  /\ Init /\ CfInit /\ SpInit /\ PbInit
  /\ scene # "credential file" => cfEnv /\ cfFile = NoFile
  /\ scene # "device specs" => /\ spListed /\ spSource.now = 1
                               /\ spFile = [v2 |-> NoEntry, v1 |-> NoEntry]
  /\ scene # "release publish" => pbTagged

StNext ==
  /\ UNCHANGED scene
  /\ \/ scene = "audit trail" /\ Next /\ UNCHANGED <<cfVars, spVars, pbVars>>
     \/ scene = "credential file" /\ CfNext /\ UNCHANGED <<vars, spVars, pbVars>>
     \/ scene = "device specs" /\ SpNext /\ UNCHANGED <<vars, cfVars, pbVars>>
     \/ scene = "release publish" /\ PbNext /\ UNCHANGED <<vars, cfVars, spVars>>

StSpec == StInit /\ [][StNext]_<<scene, vars, cfVars, spVars, pbVars>>

=============================================================================
