CONSTANT Proxies = {p1, p2, p3}
SPECIFICATION Spec
PROPERTY WaitsForClients
