-------------------------- MODULE MCChronyService ---------------------------
(* Files with no field, with some, and with two lines of the same field.    *)
EXTENDS ChronyService

MCFiles ==
    {<<Line("other", "driftfile")>>,
     <<Line("server", "a"), Line("other", "driftfile"), Line("maxpoll", "a")>>,
     <<Line("server", "a"), Line("server", "a"), Line("other", "rtcsync")>>}
==============================================================================
