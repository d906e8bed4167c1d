----------------------- MODULE ReturnUsingAutowareMC -----------------------
(* Neither button pressed, and both, where the joystick drives.              *)
EXTENDS ReturnUsingAutoware

MCJoys == {[left |-> FALSE, right |-> FALSE, x |-> 1],
           [left |-> TRUE, right |-> TRUE, x |-> 1]}

MCMaxMessages == [t \in Topics |-> IF t = "distance" THEN 2 ELSE 1]
=============================================================================
