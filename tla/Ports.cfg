\* The ports of every list of one or two addresses, start after start.
SPECIFICATION Spec
CONSTANTS
  Lists <- MCLists
  Ports <- MCPorts
  MaxDigits = 2
INVARIANTS
  PortsAdjusted
  StaysParsable
\* A list that cannot be parsed any more lets no start succeed.
CHECK_DEADLOCK FALSE
