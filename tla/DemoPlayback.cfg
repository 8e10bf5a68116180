\* Every scenario, outcome and frame of the demo's story.
SPECIFICATION DemoSpec
INVARIANTS FramesShowTheirBeat
CHECK_DEADLOCK FALSE
