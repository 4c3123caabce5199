-------------------------- MODULE MC_ClientFraming --------------------------
EXTENDS ClientFraming

\* A welcome, two states that differ in what is where, and a state over the limit.
Welcome == [type |-> SERVER_WELCOME, clientId |-> 1, stamp |-> 0, body |-> << >>]

Snake == [clientId |-> 1, direction |-> 2, score |-> 1, segments |-> <<<<3, 2>>, <<2, 2>>>>]

State(food, speedBoosts, players) ==
    [type |-> GAME_STATE, clientId |-> 0, stamp |-> 1,
     body |-> [highScore |-> 1, food |-> food, speedBoosts |-> speedBoosts,
               players |-> players]]

Samples == {Welcome,
            State(<<<<1, 2>>>>, << >>, <<Snake>>),
            State(<< >>, <<<<1, 2>>>>, << >>),
            State(<<<<1, 2>>>>, <<<<2, 1>>>>, <<Snake>>)}
=============================================================================
