SPECIFICATION Spec
CONSTANTS
    fp16 = fp16
    int8 = int8
    gptq = gptq
    bnb = bnb
    NoModel = NoModel
    Names <- MCNames
    Quantization <- MCQuantization
    GpuLoads <- MCGpuLoads
    QueueDepths <- MCQueueDepths
    gpu_util_high_threshold = 85
    gpu_util_low_threshold = 40
    queue_depth_threshold = 1
    IdleGpu = 20
INVARIANTS
    Routable
    PreferenceHonoured
    FastestUnderLoad
    LoadMonotone
