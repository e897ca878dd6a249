SPECIFICATION Spec
CONSTANTS Vehicles = {"pwm", "can7", "iso", "kwp", "fast", "odd", "none"}  Asked = {0, 3, 4, 7, 11}
INVARIANTS PromptIsHonest
PROPERTIES PromptComesBack
