----------------------------- MODULE MCLanAgent -----------------------------
(* LanAgent for TLC: main asks for all four DHCP options; other callers    *)
(* ask for none, for a new range only, or only switch the server.          *)
EXTENDS LanAgent

MCRequests ==
  {{"ignore", "start", "limit", "leasetime"}, {}, {"start", "limit"}, {"ignore"}}
=============================================================================
