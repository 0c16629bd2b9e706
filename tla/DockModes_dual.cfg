\* Monitors in the first and the third socket, which one endpoint carries.
SPECIFICATION ModesSpec
CONSTANT Connectors = {1, 3}
INVARIANT SharersAreTold
