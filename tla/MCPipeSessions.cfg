\* An agent with an oversized message shares a session with another one.
CONSTANTS
    a1 = a1
    a2 = a2
    console = console
    Zero = Zero
    NoAgent = NoAgent
    Agents = {a1, a2}
    Sessions = {console}
    SessionOf <- AllShareASession
    Oversized = {a2}
SPECIFICATION LiveSpec
INVARIANTS TypeOK NoMixedSecurity NoStaleRegistration
PROPERTIES ConnectionsEnd RegisteredIsHeard
CHECK_DEADLOCK FALSE
