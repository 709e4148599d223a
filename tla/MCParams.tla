------------------------------ MODULE MCParams ------------------------------
(* Constants of Params for model checking. The session with the platform,  *)
(* TBoxPara and the configuration share no variable, and die together; so  *)
(* TLC goes on only from states in which at most one of them has moved.    *)
EXTENDS Params

PoolStill == \A s \in Setters : para[s] = 0 /\ asked[s] = 0 /\ setter[s] = "idle"

ConfigStill == mcu = "idle" /\ conf = Blank /\ confFile = Blank /\ vin = Blank

OnePart ==
    /\ file # NoFile => PoolStill /\ ConfigStill
    /\ PoolStill \/ ConfigStill
=============================================================================
